---- MODULE Spec2Model ----
(***************************************************************************)
(* A model of the relational engine of src/db: typed tables stored as JSON *)
(* blobs (schema, row list, hash indexes), and the executor operations     *)
(* CREATE TABLE, INSERT, SELECT, UPDATE and DELETE with foreign keys.      *)
(*                                                                         *)
(* A cell value is a record [t, i, s]: t is the Python type of the value   *)
(* ("null", "int", "text", "dict"), i the integer and s the text as a      *)
(* sequence of characters (for a dict, the LIKE pattern it holds).  A      *)
(* stored table is [schema, data, indexes]; the storage is the function db *)
(* from the names of the existing table files to tables.  pending is the   *)
(* rest of the operation under way, where an operation is run in steps.    *)
(***************************************************************************)
EXTENDS Integers, Sequences, FiniteSets, TLC

VARIABLES db, last, pending

vars == <<db, last, pending>>

(***************************************************************************)
(* Bounds of the model.                                                    *)
(***************************************************************************)
\* rows a table of the single-table world may hold
MaxRows == 2
\* rows all tables of the foreign-key world may hold together
MaxFkRows == 3
\* rows the table of the schema world may hold
MaxSchemaRows == 1
\* the highest value the auto-increment counter of the counter world may take
MaxCounter == 3
\* the longest text and the longest LIKE pattern of the pattern world
MaxLen == 2

(***************************************************************************)
(* Values.                                                                 *)
(***************************************************************************)
Null == [t |-> "null", i |-> 0, s |-> <<>>]

IntV(n) == [t |-> "int", i |-> n, s |-> <<>>]

TextV(x) == [t |-> "text", i |-> 0, s |-> x]

\* a float, by its value in tenths: the floats of the model have one decimal
FloatV(tenths) == [t |-> "float", i |-> tenths, s |-> <<>>]

BoolV(b) == [t |-> "bool", i |-> IF b THEN 1 ELSE 0, s |-> <<>>]

\* the WHERE value the parser builds for LIKE: {"operator": "LIKE", "value": pattern}
LikeV(pattern) == [t |-> "dict", i |-> 0, s |-> pattern]

\* str.lower() / str.upper() on one character of the bounded alphabet
UpperLetters == <<"A", "B", "C", "D", "E", "F", "G", "H", "I", "J", "K", "L", "M",
                  "N", "O", "P", "Q", "R", "S", "T", "U", "V", "W", "X", "Y", "Z">>

LowerLetters == <<"a", "b", "c", "d", "e", "f", "g", "h", "i", "j", "k", "l", "m",
                  "n", "o", "p", "q", "r", "s", "t", "u", "v", "w", "x", "y", "z">>

LowerChar(c) == IF \E k \in 1..26 : UpperLetters[k] = c
                THEN LowerLetters[CHOOSE k \in 1..26 : UpperLetters[k] = c]
                ELSE c

UpperChar(c) == IF \E k \in 1..26 : LowerLetters[k] = c
                THEN UpperLetters[CHOOSE k \in 1..26 : LowerLetters[k] = c]
                ELSE c

Lower(x) == [k \in 1..Len(x) |-> LowerChar(x[k])]

Upper(x) == [k \in 1..Len(x) |-> UpperChar(x[k])]

\* value is None or (isinstance(value, str) and value.upper() == 'NULL')
IsNullLiteral(v) == \/ v.t = "null"
                    \/ v.t = "text" /\ Upper(v.s) = <<"N", "U", "L", "L">>

DigitChars == <<"0", "1", "2", "3", "4", "5", "6", "7", "8", "9">>

IsDigit(c) == \E d \in 1..10 : DigitChars[d] = c

DigitOf(c) == (CHOOSE d \in 1..10 : DigitChars[d] = c) - 1

RECURSIVE NatToStr(_)
\* str(n) of a non-negative int, as json.dump writes a dict key
NatToStr(n) == IF n < 10 THEN <<DigitChars[n + 1]>>
               ELSE NatToStr(n \div 10) \o <<DigitChars[(n % 10) + 1]>>

IntToStr(n) == IF n < 0 THEN <<"-">> \o NatToStr(0 - n) ELSE NatToStr(n)

RECURSIVE DigitsToNat(_)
DigitsToNat(x) == IF x = <<>> THEN 0
                  ELSE 10 * DigitsToNat(SubSeq(x, 1, Len(x) - 1)) + DigitOf(x[Len(x)])

\* a string with its sign, if it has one, taken off
Unsigned(x) == IF x # <<>> /\ x[1] \in {"-", "+"} THEN Tail(x) ELSE x

\* the digit groups of a Python number: decimal digits, with single
\* underscores allowed between two digits
IsDigitGroup(x) ==
    /\ x # <<>>
    /\ IsDigit(x[1]) /\ IsDigit(x[Len(x)])
    /\ \A k \in 1..Len(x) : IsDigit(x[k]) \/ x[k] = "_"
    /\ \A k \in 1..(Len(x) - 1) : ~(x[k] = "_" /\ x[k + 1] = "_")

\* the digits of a digit group
DigitsOf(x) == SelectSeq(x, IsDigit)

\* the strings int() parses: an optional sign and a digit group
IsIntStr(x) == IsDigitGroup(Unsigned(x))

StrToInt(x) == IF x[1] = "-" THEN 0 - DigitsToNat(DigitsOf(Unsigned(x)))
               ELSE DigitsToNat(DigitsOf(Unsigned(x)))

\* int(x) of a float given in tenths: the fraction is cut off towards zero
TruncTenths(n) == IF n < 0 THEN 0 - ((0 - n) \div 10) ELSE n \div 10

\* the place of the decimal point in a string, 0 when it has none
PointAt(x) == IF \E k \in 1..Len(x) : x[k] = "."
              THEN CHOOSE k \in 1..Len(x) : x[k] = "." /\ \A j \in 1..(k - 1) : x[j] # "."
              ELSE 0

\* the strings float() parses, among the strings of the model: an optional
\* sign, a digit group and at most one digit after a decimal point
IsFloatStr(x) ==
    LET d == Unsigned(x)
        k == PointAt(d)
        whole == IF k = 0 THEN d ELSE SubSeq(d, 1, k - 1)
        frac == IF k = 0 THEN <<>> ELSE SubSeq(d, k + 1, Len(d))
    IN  /\ Len(whole) + Len(frac) > 0
        /\ Len(frac) <= 1
        /\ whole = <<>> \/ IsDigitGroup(whole)
        /\ frac = <<>> \/ IsDigitGroup(frac)

\* float(x) in tenths
StrToTenths(x) ==
    LET neg == x[1] = "-"
        d == Unsigned(x)
        k == PointAt(d)
        whole == IF k = 0 THEN d ELSE SubSeq(d, 1, k - 1)
        frac == IF k = 0 THEN <<>> ELSE SubSeq(d, k + 1, Len(d))
        tenths == 10 * DigitsToNat(DigitsOf(whole)) + DigitsToNat(frac)
    IN  IF neg THEN 0 - tenths ELSE tenths

\* str(x) of a float given in tenths
TenthsToStr(n) ==
    LET a == IF n < 0 THEN 0 - n ELSE n
    IN  (IF n < 0 THEN <<"-">> ELSE <<>>)
            \o NatToStr(a \div 10) \o <<".">> \o NatToStr(a % 10)

\* str(value) for a value of the model
PyStr(v) == CASE v.t = "text" -> v.s
              [] v.t = "int" -> IntToStr(v.i)
              [] v.t = "float" -> TenthsToStr(v.i)
              [] v.t = "bool" -> IF v.i = 1 THEN <<"T", "r", "u", "e">>
                                 ELSE <<"F", "a", "l", "s", "e">>
              [] v.t = "dict" -> <<"{'operator': 'LIKE', 'value': '">> \o v.s \o <<"'}">>
              [] OTHER -> <<"N", "o", "n", "e">>

\* the strings the BOOL branch reads as True and as False
TrueStrings == {<<"t", "r", "u", "e">>, <<"1">>, <<"y", "e", "s">>, <<"t">>}

FalseStrings == {<<"f", "a", "l", "s", "e">>, <<"0">>, <<"n", "o">>, <<"f">>, <<>>}

\* _validate_value_type: [ok, v]; ok = FALSE stands for the ValueError
ValidateValueType(v, type) ==
    LET Raise == [ok |-> FALSE, v |-> Null]
        Return(x) == [ok |-> TRUE, v |-> x]
        value_str == Lower(PyStr(v))
    IN  IF v.t = "null" THEN Return(Null)
        ELSE CASE type = "INT" ->
                    CASE v.t = "int" -> Return(v)
                      [] v.t = "bool" -> Return(IntV(v.i))
                      [] v.t = "float" -> Return(IntV(TruncTenths(v.i)))
                      [] v.t = "text" -> IF IsIntStr(v.s) THEN Return(IntV(StrToInt(v.s)))
                                         ELSE Raise
                      [] OTHER -> Raise
               [] type = "FLOAT" ->
                    CASE v.t = "float" -> Return(v)
                      [] v.t \in {"int", "bool"} -> Return(FloatV(10 * v.i))
                      [] v.t = "text" -> IF IsFloatStr(v.s)
                                         THEN Return(FloatV(StrToTenths(v.s)))
                                         ELSE Raise
                      [] OTHER -> Raise
               [] type = "BOOL" ->
                    IF v.t = "bool" THEN Return(v)
                    ELSE IF v.t \in {"int", "text"} /\ value_str \in TrueStrings
                         THEN Return(BoolV(TRUE))
                    ELSE IF v.t \in {"int", "text"} /\ value_str \in FalseStrings
                         THEN Return(BoolV(FALSE))
                    ELSE Raise
               [] type = "TEXT" -> Return(TextV(PyStr(v)))
               [] OTHER -> Raise

\* the number a value is compared as, in tenths: True is 1 and False is 0
NumberOf(v) == IF v.t = "float" THEN v.i ELSE 10 * v.i

\* Python == on two cell values: int, float and bool are compared as numbers
PyEq(a, b) == IF a.t \in {"int", "float", "bool"} /\ b.t \in {"int", "float", "bool"}
              THEN NumberOf(a) = NumberOf(b)
              ELSE a = b

(***************************************************************************)
(* Schema.                                                                 *)
(***************************************************************************)
SUPPORTED_TYPES == {"INT", "TEXT", "BOOL", "FLOAT"}

NoName == ""

NoFK == [references_table |-> NoName, references_column |-> NoName, on_delete |-> NoName]

\* one column definition as create_table receives it
ColDef(name, type, pk, uniq, auto, nullable, fk) ==
    [name |-> name, type |-> type, primary_key |-> pk, unique |-> uniq,
     auto_increment |-> auto, nullable |-> nullable, foreign_key |-> fk]

\* the checks of _validate_schema that raise ValueError
SchemaValid(columns) ==
    /\ columns # <<>>
    /\ \A k \in 1..Len(columns) :
          /\ columns[k].name # NoName
          /\ \A j \in 1..(k - 1) : columns[j].name # columns[k].name
          /\ columns[k].type \in SUPPORTED_TYPES
          /\ columns[k].auto_increment =>
                columns[k].primary_key /\ columns[k].type = "INT"
          /\ columns[k].primary_key =>
                \A j \in 1..(k - 1) : ~columns[j].primary_key

NameOfFirst(columns, P(_)) ==
    IF \E k \in 1..Len(columns) : P(columns[k])
    THEN columns[CHOOSE k \in 1..Len(columns) :
                    P(columns[k]) /\ \A j \in 1..(k - 1) : ~P(columns[j])].name
    ELSE NoName

IsPrimaryDef(c) == c.primary_key

IsAutoDef(c) == c.primary_key /\ c.auto_increment

IsIndexedDef(c) == c.primary_key \/ c.unique

HasFKDef(c) == /\ c.foreign_key # NoFK
               /\ c.foreign_key.references_table # NoName
               /\ c.foreign_key.references_column # NoName

FKOfDef(c) ==
    [column |-> c.name,
     references_table |-> c.foreign_key.references_table,
     references_column |-> c.foreign_key.references_column,
     on_delete |-> IF c.foreign_key.on_delete = NoName THEN "RESTRICT"
                   ELSE c.foreign_key.on_delete]

\* a normalized schema that keeps nullable as the caller passed it
NormalizedSchemaAsPassed(columns) ==
    [columns |-> [k \in 1..Len(columns) |-> columns[k].name],
     coldef |-> [n \in {columns[k].name : k \in 1..Len(columns)} |->
                   LET c == columns[CHOOSE k \in 1..Len(columns) : columns[k].name = n]
                   IN  [type |-> c.type,
                        nullable |-> c.nullable,
                        unique |-> c.unique \/ c.primary_key]],
     primary_key |-> NameOfFirst(columns, IsPrimaryDef),
     auto_increment |-> NameOfFirst(columns, IsAutoDef),
     auto_increment_counter |-> 0,
     indexes |-> LET idx == SelectSeq(columns, IsIndexedDef)
                 IN  [k \in 1..Len(idx) |-> idx[k].name],
     foreign_keys |-> LET fks == SelectSeq(columns, HasFKDef)
                      IN  [k \in 1..Len(fks) |-> FKOfDef(fks[k])]]

\* the normalized schema _validate_schema returns for valid column definitions
NormalizedSchema(columns) ==
    [columns |-> [k \in 1..Len(columns) |-> columns[k].name],
     coldef |-> [n \in {columns[k].name : k \in 1..Len(columns)} |->
                   LET c == columns[CHOOSE k \in 1..Len(columns) : columns[k].name = n]
                   IN  [type |-> c.type,
                        nullable |-> IF c.primary_key THEN FALSE ELSE c.nullable,
                        unique |-> c.unique \/ c.primary_key]],
     primary_key |-> NameOfFirst(columns, IsPrimaryDef),
     auto_increment |-> NameOfFirst(columns, IsAutoDef),
     auto_increment_counter |-> 0,
     indexes |-> LET idx == SelectSeq(columns, IsIndexedDef)
                 IN  [k \in 1..Len(idx) |-> idx[k].name],
     foreign_keys |-> LET fks == SelectSeq(columns, HasFKDef)
                      IN  [k \in 1..Len(fks) |-> FKOfDef(fks[k])]]

ValidateSchema(columns) ==
    IF SchemaValid(columns) THEN [ok |-> TRUE, schema |-> NormalizedSchema(columns)]
    ELSE [ok |-> FALSE, schema |-> NormalizedSchema(<<>>)]

(***************************************************************************)
(* Storage: one JSON blob per table.                                       *)
(***************************************************************************)
TableExists(d, t) == t \in DOMAIN d

Range(f) == {f[x] : x \in DOMAIN f}

\* the key json.dump writes for a dict key: every key becomes a string
JsonKey(v) == IF v.t = "bool" THEN TextV(Lower(PyStr(v))) ELSE TextV(PyStr(v))

\* "value in index_data" for an index loaded from the blob: the loaded keys are
\* strings, so only a str value can be found among them
InLoadedKeys(v, index) == v.t = "text" /\ v \in DOMAIN index

\* the blob written for an index dict that was loaded and then given the entry
\* value -> positions: a key that is not a str is written after the loaded key
\* with the same text, and json.load keeps the last of two equal keys
WithKey(index, v, positions) ==
    [k \in (DOMAIN index) \cup {JsonKey(v)} |->
        IF k = JsonKey(v) THEN positions ELSE index[k]]

WithoutKey(index, k) == [j \in (DOMAIN index) \ {k} |-> index[j]]

\* Storage.update_table_data
UpdateTableData(d, t, rows) == [d EXCEPT ![t].data = rows]

\* Storage.update_indexes
UpdateIndexes(d, t, indexes) == [d EXCEPT ![t].indexes = indexes]

\* a storage that puts the new row before the rows of the table
InsertRowFirst(d, t, row) == [d EXCEPT ![t].data = <<row>> \o @]

\* Storage.insert_row
InsertRow(d, t, row) == [d EXCEPT ![t].data = Append(@, row)]

(***************************************************************************)
(* Index maintenance.                                                      *)
(***************************************************************************)
\* positions (0-based), in row order, of the rows whose column col has key k
PositionsOf(rows, col, k) ==
    LET hit(p) == rows[p][col] # Null /\ JsonKey(rows[p][col]) = k
        RECURSIVE Collect(_)
        Collect(p) == IF p > Len(rows) THEN <<>>
                      ELSE (IF hit(p) THEN <<p - 1>> ELSE <<>>) \o Collect(p + 1)
    IN  Collect(1)

\* one index of _build_all_indexes, as stored
BuildIndex(rows, col) ==
    [k \in {JsonKey(rows[p][col]) : p \in {q \in 1..Len(rows) : rows[q][col] # Null}} |->
        PositionsOf(rows, col, k)]

\* _build_all_indexes
BuildAllIndexes(d, t) ==
    UpdateIndexes(d, t, [c \in Range(d[t].schema.indexes) |-> BuildIndex(d[t].data, c)])

\* the loop body of _update_index_on_insert for one index
IndexOnInsert(index, value, row_index) ==
    IF value = Null THEN index
    ELSE IF InLoadedKeys(value, index)
         THEN [index EXCEPT ![value] = Append(@, row_index)]
         ELSE WithKey(index, value, <<row_index>>)

\* _update_index_on_insert
UpdateIndexOnInsert(d, t, row, row_index) ==
    UpdateIndexes(d, t, [c \in DOMAIN d[t].indexes |->
                            IndexOnInsert(d[t].indexes[c], row[c], row_index)])

\* list.remove(x): the first occurrence is removed
RemoveFirst(positions, x) ==
    IF \E k \in 1..Len(positions) : positions[k] = x
    THEN LET k == CHOOSE j \in 1..Len(positions) :
                     positions[j] = x /\ \A m \in 1..(j - 1) : positions[m] # x
         IN  SubSeq(positions, 1, k - 1) \o SubSeq(positions, k + 1, Len(positions))
    ELSE positions

\* "Remove old value from index" of _update_index_on_update
IndexRemoveOld(index, old_value, row_index) ==
    IF old_value # Null /\ InLoadedKeys(old_value, index)
    THEN LET left == RemoveFirst(index[old_value], row_index)
         IN  IF left = <<>> THEN WithoutKey(index, old_value)
             ELSE [index EXCEPT ![old_value] = left]
    ELSE index

\* "Add new value to index" of _update_index_on_update
IndexAddNew(index, new_value, row_index) == IndexOnInsert(index, new_value, row_index)

\* the loop body of _update_index_on_update for one index
IndexOnUpdate(index, old_value, new_value, row_index) ==
    IF old_value # new_value
    THEN IndexAddNew(IndexRemoveOld(index, old_value, row_index), new_value, row_index)
    ELSE index

\* _update_index_on_update
UpdateIndexOnUpdate(d, t, old_row, new_row, row_index) ==
    UpdateIndexes(d, t, [c \in DOMAIN d[t].indexes |->
        IndexOnUpdate(d[t].indexes[c], old_row[c], new_row[c], row_index)])

(***************************************************************************)
(* INSERT.                                                                 *)
(***************************************************************************)
Failed(d) == [db |-> d, ok |-> FALSE, n |-> 0]

Done(d, n) == [db |-> d, ok |-> TRUE, n |-> n]

\* position (1-based) of a column name in the column order
ColIndex(columns, c) == CHOOSE k \in 1..Len(columns) : columns[k] = c

\* list.insert(k - 1, x)
ListInsert(values, k, x) == SubSeq(values, 1, k - 1) \o <<x>> \o SubSeq(values, k, Len(values))

\* the value generated for the auto-increment column
NextAutoId(schema) == schema.auto_increment_counter + 1

\* a placeholder put at the beginning of the list, wherever the column stands
WithAutoPlaceholderFirst(schema, values) ==
    IF schema.auto_increment # NoName /\ Len(values) = Len(schema.columns) - 1
    THEN ListInsert(values, 1, IntV(NextAutoId(schema)))
    ELSE values

\* "Handle auto-increment: if column exists and values list is shorter"
WithAutoPlaceholder(schema, values) ==
    IF schema.auto_increment # NoName /\ Len(values) = Len(schema.columns) - 1
    THEN ListInsert(values, ColIndex(schema.columns, schema.auto_increment),
                    IntV(NextAutoId(schema)))
    ELSE values

\* the cell INSERT builds for column k: [ok, v]
InsertCell(schema, values, k) ==
    LET col == schema.columns[k]
        value == IF schema.auto_increment = col /\ IsNullLiteral(values[k])
                 THEN IntV(NextAutoId(schema)) ELSE values[k]
    IN  IF IsNullLiteral(value)
        THEN [ok |-> schema.coldef[col].nullable, v |-> Null]
        ELSE ValidateValueType(value, schema.coldef[col].type)

\* the primary-key check of insert against the stored rows
InsertPkOk(schema, rows, row) ==
    schema.primary_key # NoName =>
        /\ row[schema.primary_key] # Null
        /\ \A p \in 1..Len(rows) :
              ~PyEq(rows[p][schema.primary_key], row[schema.primary_key])

\* the unique checks of insert against the stored rows
InsertUniqueOk(schema, rows, row) ==
    \A c \in DOMAIN schema.coldef :
        (schema.coldef[c].unique /\ row[c] # Null) =>
            \A p \in 1..Len(rows) : ~PyEq(rows[p][c], row[c])

\* a counter that is set to the stored value, higher or not
SetCounter(d, t, row) ==
    LET schema == d[t].schema
    IN  IF schema.auto_increment # NoName
        THEN [d EXCEPT ![t].schema.auto_increment_counter = row[schema.auto_increment].i]
        ELSE d

\* "Update auto_increment counter after insert"
RaiseCounter(d, t, row) ==
    LET schema == d[t].schema
    IN  IF schema.auto_increment # NoName
           /\ row[schema.auto_increment].i > schema.auto_increment_counter
        THEN [d EXCEPT ![t].schema.auto_increment_counter = row[schema.auto_increment].i]
        ELSE d

\* DatabaseEngine.insert
\* the row INSERT builds from the values, one per column
InsertedRow(schema, vals) ==
    [c \in DOMAIN schema.coldef |-> InsertCell(schema, vals, ColIndex(schema.columns, c)).v]

\* an insert that stores the row and raises the counter before the unique
\* checks: a unique violation is raised after the writes
InsertWriteFirst(d, t, schema, row) ==
    IF ~InsertPkOk(schema, d[t].data, row) THEN Failed(d)
    ELSE IF ~InsertUniqueOk(schema, d[t].data, row)
         THEN Failed(RaiseCounter(InsertRow(d, t, row), t, row))
    ELSE Done(UpdateIndexOnInsert(RaiseCounter(InsertRow(d, t, row), t, row), t, row,
                                  Len(d[t].data)), 1)

\* the checks of insert on the built row, then its three writes
InsertChecked(d, t, schema, row) ==
    IF ~InsertPkOk(schema, d[t].data, row) THEN Failed(d)
    ELSE IF ~InsertUniqueOk(schema, d[t].data, row) THEN Failed(d)
    ELSE Done(UpdateIndexOnInsert(RaiseCounter(InsertRow(d, t, row), t, row), t, row,
                                  Len(d[t].data)), 1)

InsertValues(d, t, schema, vals) ==
    IF Len(vals) # Len(schema.columns) THEN Failed(d)
    ELSE IF \E k \in 1..Len(vals) : ~InsertCell(schema, vals, k).ok THEN Failed(d)
    ELSE InsertChecked(d, t, schema, InsertedRow(schema, vals))

\* DatabaseEngine.insert
InsertOp(d, t, values) ==
    IF ~TableExists(d, t) THEN Failed(d)
    ELSE InsertValues(d, t, d[t].schema, WithAutoPlaceholder(d[t].schema, values))

(***************************************************************************)
(* WHERE predicates.  A WHERE clause is NoWhere or [col, value]; the value *)
(* of a LIKE predicate is the dict LikeV(pattern).                         *)
(***************************************************************************)
NoWhere == [col |-> NoName, value |-> Null]

Where(col, value) == [col |-> col, value |-> value]

\* the line feed: the one character "." of a regular expression does not
\* match, and before which "$" matches when it ends the text
LineFeed == "\n"

RECURSIVE LikeFrom(_, _)
\* re.match('^' + translated pattern + '$', text, re.IGNORECASE), on the
\* characters left of text and pattern: "%" is ".*", "_" is ".", any other
\* character is itself escaped, and "$" matches at the end of the text or
\* before a line feed that ends it
LikeFrom(text, pattern) ==
    IF pattern = <<>> THEN text = <<>> \/ text = <<LineFeed>>
    ELSE IF Head(pattern) = "%"
         THEN \/ LikeFrom(text, Tail(pattern))
              \/ text # <<>> /\ Head(text) # LineFeed /\ LikeFrom(Tail(text), pattern)
    ELSE IF Head(pattern) = "_"
         THEN text # <<>> /\ Head(text) # LineFeed /\ LikeFrom(Tail(text), Tail(pattern))
    ELSE /\ text # <<>>
         /\ LowerChar(Head(text)) = LowerChar(Head(pattern))
         /\ LikeFrom(Tail(text), Tail(pattern))

\* _match_like_pattern
MatchLikePattern(v, pattern) == v.t = "text" /\ LikeFrom(v.s, pattern)

\* the equality comparison of one row against a converted WHERE value
EqConverted(cell, converted, type) ==
    IF type = "TEXT" /\ cell.t = "text" /\ converted.t = "text"
    THEN Lower(cell.s) = Lower(converted.s)
    ELSE PyEq(cell, converted)

\* the WHERE test in the row loops of update and delete
RowMatches(schema, row, where) ==
    LET type == schema.coldef[where.col].type
        conv == ValidateValueType(where.value, type)
    IN  IF IsNullLiteral(where.value) THEN row[where.col] = Null
        ELSE conv.ok /\ EqConverted(row[where.col], conv.v, type)

\* the WHERE test of the full scan of select, which knows LIKE
ScanMatches(schema, row, where) ==
    IF where.value.t = "dict"
    THEN where.value.i = 0 /\ MatchLikePattern(row[where.col], where.value.s)
    ELSE RowMatches(schema, row, where)

\* positions (1-based, ascending) of the rows for which Test holds
Matching(rows, Test(_)) ==
    LET RECURSIVE Collect(_)
        Collect(p) == IF p > Len(rows) THEN <<>>
                      ELSE (IF Test(rows[p]) THEN <<p>> ELSE <<>>) \o Collect(p + 1)
    IN  Collect(1)

RowsAt(rows, positions) == [k \in 1..Len(positions) |-> rows[positions[k]]]

InSeq(x, seq) == \E k \in 1..Len(seq) : seq[k] = x

(***************************************************************************)
(* SELECT without joins.                                                   *)
(***************************************************************************)
\* _get_indexed_rows: [found, positions]; found = FALSE stands for None
GetIndexedRows(d, t, column, value) ==
    IF column \in DOMAIN d[t].indexes /\ InLoadedKeys(value, d[t].indexes[column])
    THEN [found |-> TRUE, positions |-> d[t].indexes[column][value]]
    ELSE [found |-> FALSE, positions |-> <<>>]

\* the rows a full scan of select keeps, as positions
ScanPositions(d, t, where) ==
    LET Test(row) == ScanMatches(d[t].schema, row, where)
    IN  Matching(d[t].data, Test)

\* "Check if we can use an index": [ok, positions] of the first pass of select;
\* positions are 1-based, ok = FALSE stands for the IndexError of all_rows[row_idx]
IndexPass(d, t, where) ==
    LET schema == d[t].schema
        rows == d[t].data
        type == schema.coldef[where.col].type
        conv == ValidateValueType(where.value, type)
        indexed == GetIndexedRows(d, t, where.col, conv.v)
        IsNone(row) == row[where.col] = Null
        Eq(row) == EqConverted(row[where.col], conv.v, type)
    IN  IF where.col \notin DOMAIN schema.coldef THEN [ok |-> TRUE, positions |-> <<>>]
        ELSE IF IsNullLiteral(where.value)
             THEN [ok |-> TRUE, positions |-> Matching(rows, IsNone)]
        ELSE IF ~conv.ok THEN [ok |-> TRUE, positions |-> <<>>]
        ELSE IF indexed.found
             THEN [ok |-> \A k \in 1..Len(indexed.positions) :
                             indexed.positions[k] < Len(rows),
                   positions |-> [k \in 1..Len(indexed.positions) |->
                                     indexed.positions[k] + 1]]
        ELSE [ok |-> TRUE, positions |-> Matching(rows, Eq)]

\* the filtering of select: [ok, positions] of the rows returned, in result order
SelectPositions(d, t, where) ==
    LET rows == d[t].data
        first == IndexPass(d, t, where)
    IN  IF where = NoWhere THEN [ok |-> TRUE, positions |-> [k \in 1..Len(rows) |-> k]]
        ELSE IF ~first.ok THEN first
        ELSE IF first.positions # <<>> THEN first
        ELSE IF where.col \notin DOMAIN d[t].schema.coldef
             THEN [ok |-> rows = <<>>, positions |-> <<>>]
        ELSE [ok |-> TRUE, positions |-> ScanPositions(d, t, where)]

Project(row, columns) == [c \in Range(columns) |-> row[c]]

\* DatabaseEngine.select without joins: [ok, rows]
SelectOp(d, t, columns, where) ==
    IF ~TableExists(d, t) THEN [ok |-> FALSE, rows |-> <<>>]
    ELSE IF \E k \in 1..Len(columns) : columns[k] \notin DOMAIN d[t].schema.coldef
         THEN [ok |-> FALSE, rows |-> <<>>]
    ELSE LET cols == IF columns = <<>> THEN d[t].schema.columns ELSE columns
             sel == SelectPositions(d, t, where)
         IN  IF ~sel.ok THEN [ok |-> FALSE, rows |-> <<>>]
             ELSE [ok |-> TRUE,
                   rows |-> [k \in 1..Len(sel.positions) |->
                                Project(d[t].data[sel.positions[k]], cols)]]

(***************************************************************************)
(* UPDATE.                                                                 *)
(***************************************************************************)
\* "Find rows to update" / "Find rows to delete": [ok, positions]; ok = FALSE
\* stands for the ValueError raised for an unknown WHERE column
WherePositions(d, t, where) ==
    LET rows == d[t].data
        Test(row) == RowMatches(d[t].schema, row, where)
    IN  IF where = NoWhere THEN [ok |-> TRUE, positions |-> [k \in 1..Len(rows) |-> k]]
        ELSE IF where.col \notin DOMAIN d[t].schema.coldef
             THEN [ok |-> rows = <<>>, positions |-> <<>>]
        ELSE [ok |-> TRUE, positions |-> Matching(rows, Test)]

\* an assignment that stores Null whether the column is nullable or not
AssignCellAnyNull(schema, col, new_value) ==
    IF IsNullLiteral(new_value) THEN [ok |-> TRUE, v |-> Null]
    ELSE ValidateValueType(new_value, schema.coldef[col].type)

\* the cell one assignment produces: [ok, v]
AssignCell(schema, col, new_value) ==
    IF IsNullLiteral(new_value)
    THEN [ok |-> schema.coldef[col].nullable, v |-> Null]
    ELSE ValidateValueType(new_value, schema.coldef[col].type)

\* "Apply assignments" to a copy of the row
UpdatedRow(schema, row, assignments) ==
    [c \in DOMAIN row |-> IF c \in DOMAIN assignments
                          THEN AssignCell(schema, c, assignments[c]).v ELSE row[c]]

\* _validate_row_constraints against the stored rows, row p (1-based) excluded
ValidateRowConstraints(schema, rows, row, p) ==
    /\ schema.primary_key # NoName =>
          /\ row[schema.primary_key] # Null
          /\ \A q \in 1..Len(rows) :
                q # p => ~PyEq(rows[q][schema.primary_key], row[schema.primary_key])
    /\ \A c \in DOMAIN schema.coldef :
          (schema.coldef[c].unique /\ row[c] # Null) =>
              \A q \in 1..Len(rows) : q # p => ~PyEq(rows[q][c], row[c])

RECURSIVE IndexesAfterUpdate(_, _, _, _, _)
\* "Update indexes for changed rows": _update_index_on_update for the k-th and
\* the later updated rows, in order
IndexesAfterUpdate(d, t, old_rows, positions, k) ==
    IF k > Len(positions) THEN d
    ELSE IndexesAfterUpdate(
             UpdateIndexOnUpdate(d, t, old_rows[positions[k]],
                                 d[t].data[positions[k]], positions[k] - 1),
             t, old_rows, positions, k + 1)

\* DatabaseEngine.update
\* "Create updated rows": the new row list
UpdatedRows(schema, all_rows, assignments, positions) ==
    [p \in 1..Len(all_rows) |->
        IF InSeq(p, positions) THEN UpdatedRow(schema, all_rows[p], assignments)
        ELSE all_rows[p]]

\* an update that stores each candidate row as soon as it is validated: the
\* rows before the first invalid candidate are written before the failure
UpdateRowByRow(d, t, schema, all_rows, positions, updated_rows) ==
    LET Bad(k) == ~ValidateRowConstraints(schema, all_rows, updated_rows[positions[k]],
                                          positions[k])
        bad == {k \in 1..Len(positions) : Bad(k)}
        first == CHOOSE k \in bad : \A j \in bad : k <= j
        written == [p \in 1..Len(all_rows) |->
                       IF \E k \in 1..(first - 1) : positions[k] = p
                       THEN updated_rows[p] ELSE all_rows[p]]
    IN  IF bad # {} THEN Failed(UpdateTableData(d, t, written))
        ELSE Done(IndexesAfterUpdate(UpdateTableData(d, t, updated_rows), t,
                                     all_rows, positions, 1),
                  Len(positions))

\* the validation of every candidate row, then the write of the table and of
\* the indexes
UpdateValidated(d, t, schema, all_rows, positions, updated_rows) ==
    IF \E k \in 1..Len(positions) :
           ~ValidateRowConstraints(schema, all_rows, updated_rows[positions[k]], positions[k])
    THEN Failed(d)
    ELSE Done(IndexesAfterUpdate(UpdateTableData(d, t, updated_rows), t,
                                 all_rows, positions, 1),
              Len(positions))

UpdateMatched(d, t, schema, assignments, found) ==
    IF ~found.ok THEN Failed(d)
    ELSE IF found.positions = <<>> THEN Done(d, 0)
    ELSE IF \E c \in DOMAIN assignments : ~AssignCell(schema, c, assignments[c]).ok
         THEN Failed(d)
    ELSE UpdateValidated(d, t, schema, d[t].data, found.positions,
                         UpdatedRows(schema, d[t].data, assignments, found.positions))

\* DatabaseEngine.update
UpdateOp(d, t, assignments, where) ==
    IF ~TableExists(d, t) THEN Failed(d)
    ELSE IF \E c \in DOMAIN assignments : c \notin DOMAIN d[t].schema.coldef
         THEN Failed(d)
    ELSE UpdateMatched(d, t, d[t].schema, assignments, WherePositions(d, t, where))

(***************************************************************************)
(* DELETE and foreign keys.                                                *)
(***************************************************************************)
\* the number of rows of the tables named
RECURSIVE SumRows(_, _)
SumRows(d, names) == IF names = {} THEN 0
                     ELSE LET t == CHOOSE x \in names : TRUE
                          IN  Len(d[t].data) + SumRows(d, names \ {t})

\* every table name of the model, in the order sorted() gives
SortedNames == <<"c", "g", "p", "u">>

\* list_tables
ListTables(d) == LET Test(t) == t \in DOMAIN d IN SelectSeq(SortedNames, Test)

\* "x in pk_values_to_delete"
InValues(x, values) == \E v \in values : PyEq(x, v)

\* the rows of a list that satisfy Test, in order
Keep(rows, Test(_)) == SelectSeq(rows, Test)

RECURSIVE HandleForeignKeyConstraints(_, _, _)
RECURSIVE CheckChildTables(_, _, _, _, _)
RECURSIVE CheckForeignKeys(_, _, _, _, _, _)
RECURSIVE CascadeDelete(_, _, _, _)

\* a cascade that leaves the rows of the child table as they are
CascadeKeepsRows(d, child, fk_column, pk_values) == d

\* the writes of _cascade_delete: the rows of the child table that refer to no
\* deleted key, and the rebuilt indexes
\* (a write that leaves the child table with no row at all)
CascadeWriteClears(d, child, fk_column, pk_values) ==
    BuildAllIndexes(UpdateTableData(d, child, <<>>), child)

\* "Delete child records": the child table without the rows that refer to a
\* deleted key, and the rebuilt indexes
CascadeWrite(d, child, fk_column, pk_values) ==
    LET Stays(row) == ~InValues(row[fk_column], pk_values)
    IN  BuildAllIndexes(UpdateTableData(d, child, Keep(d[child].data, Stays)), child)

\* deleted_child_pk_values of _cascade_delete
DeletedChildPks(d, child, fk_column, pk_values) ==
    LET all_child_rows == d[child].data
        child_pk == d[child].schema.primary_key
    IN  IF child_pk = NoName THEN {}
        ELSE {all_child_rows[p][child_pk] :
                 p \in {q \in 1..Len(all_child_rows) :
                           InValues(all_child_rows[q][fk_column], pk_values)}}

\* _cascade_delete: [db, ok]; ok = FALSE stands for the ValueError of a RESTRICT
\* foreign key met further down
CascadeDelete(d, child, fk_column, pk_values) ==
    LET d1 == CascadeWrite(d, child, fk_column, pk_values)
        deleted_child_pk_values == DeletedChildPks(d, child, fk_column, pk_values)
    IN  IF deleted_child_pk_values # {}
        THEN HandleForeignKeyConstraints(d1, child, deleted_child_pk_values)
        ELSE [db |-> d1, ok |-> TRUE]

\* the loop over the foreign keys of one child table, from the k-th on
CheckForeignKeys(d, t, pk_column, pk_values, child, k) ==
    LET fks == d[child].schema.foreign_keys
        fk == fks[k]
        Refers(row) == InValues(row[fk.column], pk_values)
        cascaded == CascadeDelete(d, child, fk.column, pk_values)
    IN  IF k > Len(fks) THEN [db |-> d, ok |-> TRUE]
        ELSE IF fk.references_table = t /\ fk.references_column = pk_column
                /\ Keep(d[child].data, Refers) # <<>>
             THEN IF fk.on_delete = "CASCADE"
                  THEN IF cascaded.ok
                       THEN CheckForeignKeys(cascaded.db, t, pk_column, pk_values, child, k + 1)
                       ELSE cascaded
                  ELSE [db |-> d, ok |-> FALSE]
        ELSE CheckForeignKeys(d, t, pk_column, pk_values, child, k + 1)

\* a loop over all_tables that also looks at the foreign keys of the table
\* deleted from
CheckChildTablesWithSelf(d, t, pk_column, pk_values, tables) ==
    IF tables = <<>> THEN [db |-> d, ok |-> TRUE]
    ELSE LET res == CheckForeignKeys(d, t, pk_column, pk_values, Head(tables), 1)
         IN  IF res.ok
             THEN CheckChildTables(res.db, t, pk_column, pk_values, Tail(tables))
             ELSE res

\* the loop over all_tables, from the k-th table on
CheckChildTables(d, t, pk_column, pk_values, tables) ==
    IF tables = <<>> THEN [db |-> d, ok |-> TRUE]
    ELSE IF Head(tables) = t
         THEN CheckChildTables(d, t, pk_column, pk_values, Tail(tables))
    ELSE LET res == CheckForeignKeys(d, t, pk_column, pk_values, Head(tables), 1)
         IN  IF res.ok
             THEN CheckChildTables(res.db, t, pk_column, pk_values, Tail(tables))
             ELSE res

\* _handle_foreign_key_constraints, given the primary-key values of the rows to
\* delete: [db, ok]; the db of a failure holds what the cascades wrote before it
HandleForeignKeyConstraints(d, t, pk_values) ==
    IF d[t].schema.primary_key = NoName \/ pk_values = {} THEN [db |-> d, ok |-> TRUE]
    ELSE CheckChildTables(d, t, d[t].schema.primary_key, pk_values, ListTables(d))

\* the primary-key values of rows_to_delete
PkValues(schema, rows) ==
    IF schema.primary_key = NoName THEN {}
    ELSE {rows[p][schema.primary_key] : p \in 1..Len(rows)}

\* DatabaseEngine.delete
\* rows_to_keep: the rows the WHERE predicate did not match, in order
RowsToKeep(all_rows, positions) ==
    LET Test(p) == ~InSeq(p, positions)
    IN  RowsAt(all_rows, SelectSeq([p \in 1..Len(all_rows) |-> p], Test))

\* "Save remaining rows" and "Rebuild indexes after delete", after the foreign
\* keys were handled with outcome fk
DeleteWrite(t, rows_to_keep, deleted_count, fk) ==
    IF ~fk.ok THEN Failed(fk.db)
    ELSE IF deleted_count > 0
         THEN Done(BuildAllIndexes(UpdateTableData(fk.db, t, rows_to_keep), t), deleted_count)
    ELSE Done(UpdateTableData(fk.db, t, rows_to_keep), 0)

\* a delete that answers with the number of rows it removed from all tables,
\* the child rows removed by the cascade among them
DeleteCountsCascaded(d, t, found) ==
    LET res == DeleteWrite(t, RowsToKeep(d[t].data, found.positions), Len(found.positions),
                           IF found.positions # <<>>
                           THEN HandleForeignKeyConstraints(
                                    d, t, PkValues(d[t].schema, RowsAt(d[t].data, found.positions)))
                           ELSE [db |-> d, ok |-> TRUE])
    IN  IF ~found.ok THEN Failed(d)
        ELSE [res EXCEPT !.n = IF res.ok THEN SumRows(d, DOMAIN d) - SumRows(res.db, DOMAIN d)
                                 ELSE 0]

DeleteMatched(d, t, found) ==
    IF ~found.ok THEN Failed(d)
    ELSE DeleteWrite(t, RowsToKeep(d[t].data, found.positions), Len(found.positions),
                     IF found.positions # <<>>
                     THEN HandleForeignKeyConstraints(
                              d, t, PkValues(d[t].schema, RowsAt(d[t].data, found.positions)))
                     ELSE [db |-> d, ok |-> TRUE])

\* DatabaseEngine.delete
DeleteOp(d, t, where) ==
    IF ~TableExists(d, t) THEN Failed(d)
    ELSE DeleteMatched(d, t, WherePositions(d, t, where))

(***************************************************************************)
(* CREATE TABLE.                                                           *)
(***************************************************************************)
\* Storage.create_table followed by _build_all_indexes
NewTable(schema) ==
    [schema |-> schema, data |-> <<>>,
     indexes |-> [c \in Range(schema.indexes) |-> BuildIndex(<<>>, c)]]

\* a create_table that writes the new table over an existing one
CreateTableOverwrites(d, t, columns) ==
    IF ~ValidateSchema(columns).ok THEN Failed(d)
    ELSE Done([n \in (DOMAIN d) \cup {t} |->
                  IF n = t THEN NewTable(ValidateSchema(columns).schema) ELSE d[n]], 0)

\* DatabaseEngine.create_table
CreateTableOp(d, t, columns) ==
    IF TableExists(d, t) THEN Failed(d)
    ELSE IF ~ValidateSchema(columns).ok THEN Failed(d)
    ELSE Done([n \in (DOMAIN d) \cup {t} |->
                  IF n = t THEN NewTable(ValidateSchema(columns).schema) ELSE d[n]], 0)

(***************************************************************************)
(* SELECT with joins.  A joined row is keyed by "table.column", written    *)
(* here as the pair <<table, column>>; a column name of a WHERE clause or  *)
(* of a projection is the pair too, with NoName as the table of an         *)
(* unqualified name.  The rows the nested loops build are followed by the  *)
(* positions they were built from, one position per joined table.          *)
(***************************************************************************)
\* one join as the parser hands it over: the table and its ON clause
JoinDef(table, left_table, left_column, right_table, right_column) ==
    [table |-> table, left_table |-> left_table, left_column |-> left_column,
     right_table |-> right_table, right_column |-> right_column]

Prefixed(t, c) == <<t, c>>

QName(t, c) == <<t, c>>

QWhere(t, c, value) == [col |-> QName(t, c), value |-> value]

NoQWhere == [col |-> QName(NoName, NoName), value |-> Null]

PrefixedColumns(d, t) == {Prefixed(t, c) : c \in DOMAIN d[t].schema.coldef}

RECURSIVE CombinedRow(_, _, _)
\* combined_row of the rows at positions at of the tables names: the columns
\* of the rows joined so far, then those of the join table written over them
CombinedRow(d, names, at) ==
    LET n == Len(names)
        join_table == names[n]
        row2 == d[join_table].data[at[n]]
        row1 == CombinedRow(d, SubSeq(names, 1, n - 1), SubSeq(at, 1, n - 1))
    IN  IF n = 1
        THEN [key \in PrefixedColumns(d, join_table) |-> row2[key[2]]]
        ELSE [key \in DOMAIN row1 \cup PrefixedColumns(d, join_table) |->
                 IF key[1] = join_table THEN row2[key[2]] ELSE row1[key]]

\* "Get left value": row1 is a row of the first table as stored while nothing
\* has been joined, and a combined row afterwards
LeftValue(d, names, at, join) ==
    LET first == d[names[1]].data[at[1]]
        row1 == CombinedRow(d, names, at)
        prefixed_key == Prefixed(join.left_table, join.left_column)
    IN  IF Len(names) = 1
        THEN IF join.left_column \in DOMAIN first THEN first[join.left_column]
             ELSE Null
        ELSE IF prefixed_key \in DOMAIN row1 THEN row1[prefixed_key] ELSE Null

\* "Get right value from join table"
RightValue(row2, join) ==
    IF join.right_column \in DOMAIN row2 THEN row2[join.right_column] ELSE Null

\* the inner loop run from the last row of rows2 to the first
InnerLoopNewestFirst(d, names, at, join) ==
    LET rows2 == d[join.table].data
        left_value == LeftValue(d, names, at, join)
        Joins(row2) == PyEq(left_value, RightValue(row2, join)) /\ left_value # Null
        hits == Matching(rows2, Joins)
    IN  [k \in 1..Len(hits) |-> Append(at, hits[Len(hits) + 1 - k])]

\* the inner loop "for row2 in rows2" for one row1: the rows joined to it
InnerLoop(d, names, at, join) ==
    LET rows2 == d[join.table].data
        left_value == LeftValue(d, names, at, join)
        Joins(row2) == PyEq(left_value, RightValue(row2, join)) /\ left_value # Null
        hits == Matching(rows2, Joins)
    IN  [k \in 1..Len(hits) |-> Append(at, hits[k])]

RECURSIVE NestedLoop(_, _, _, _)
\* "Perform nested loop join": for row1 in current_rows: for row2 in rows2
NestedLoop(d, names, current_rows, join) ==
    IF current_rows = <<>> THEN <<>>
    ELSE InnerLoop(d, names, Head(current_rows), join)
             \o NestedLoop(d, names, Tail(current_rows), join)

RECURSIVE ProcessJoins(_, _, _, _)
\* "Process each join": [ok, names, at]; ok = FALSE stands for the ValueError
\* raised for a join table that does not exist
ProcessJoins(d, names, current_rows, joins) ==
    IF joins = <<>> THEN [ok |-> TRUE, names |-> names, at |-> current_rows]
    ELSE IF ~TableExists(d, Head(joins).table)
         THEN [ok |-> FALSE, names |-> names, at |-> <<>>]
    ELSE ProcessJoins(d, Append(names, Head(joins).table),
                      NestedLoop(d, names, current_rows, Head(joins)), Tail(joins))

\* the rows joined before WHERE is applied
JoinedRows(d, t, joins) ==
    IF ~TableExists(d, t) THEN [ok |-> FALSE, names |-> <<t>>, at |-> <<>>]
    ELSE ProcessJoins(d, <<t>>, [p \in 1..Len(d[t].data) |-> <<p>>], joins)

\* the key of WHERE, an unqualified name looked up from the last table joined
WhereKeyLastTable(d, names, col) ==
    LET Declares(k) == col[2] \in DOMAIN d[names[k]].schema.coldef
    IN  IF col[1] # NoName THEN col
        ELSE IF \E k \in 1..Len(names) : Declares(k)
             THEN Prefixed(names[CHOOSE k \in 1..Len(names) :
                                    Declares(k) /\ \A j \in (k + 1)..Len(names) : ~Declares(j)],
                           col[2])
        ELSE col

\* "Handle table.column notation" of WHERE: the key the filter reads
WhereKey(d, names, col) ==
    LET Declares(k) == col[2] \in DOMAIN d[names[k]].schema.coldef
    IN  IF col[1] # NoName THEN col
        ELSE IF \E k \in 1..Len(names) : Declares(k)
             THEN Prefixed(names[CHOOSE k \in 1..Len(names) :
                                    Declares(k) /\ \A j \in 1..(k - 1) : ~Declares(j)],
                           col[2])
        ELSE col

\* row.get(key)
RowGet(row, key) == IF key \in DOMAIN row THEN row[key] ELSE Null

\* "Apply WHERE clause if present": the rows kept, by their positions
FilterJoined(d, names, current_rows, where) ==
    LET table_col == WhereKey(d, names, where.col)
        Stays(at) == PyEq(RowGet(CombinedRow(d, names, at), table_col), where.value)
    IN  IF where = NoQWhere THEN current_rows ELSE SelectSeq(current_rows, Stays)

\* "Return all columns, but simplify names if possible"
SimplifiedRow(row) ==
    LET Count(col_name) == Cardinality({k \in DOMAIN row : k[2] = col_name})
        Short(key) == IF Count(key[2]) = 1 THEN QName(NoName, key[2]) ELSE key
    IN  [name \in {Short(key) : key \in DOMAIN row} |->
            row[CHOOSE key \in DOMAIN row : Short(key) = name]]

\* the key of the joined row a requested column is read from; NoName as its
\* table when the column is left out of the result
ResultKey(names, row, col) ==
    LET Has(k) == Prefixed(names[k], col[2]) \in DOMAIN row
    IN  IF col[1] # NoName
        THEN IF col \in DOMAIN row THEN col ELSE Prefixed(NoName, NoName)
        ELSE IF \E k \in 1..Len(names) : Has(k)
             THEN Prefixed(names[CHOOSE k \in 1..Len(names) :
                                    Has(k) /\ \A j \in 1..(k - 1) : ~Has(j)],
                           col[2])
        ELSE Prefixed(NoName, NoName)

\* "Select only requested columns"; columns = <<>> stands for None
ResultRow(names, row, columns) ==
    LET Found(col) == ResultKey(names, row, col) # Prefixed(NoName, NoName)
    IN  IF columns = <<>> THEN SimplifiedRow(row)
        ELSE [col \in {c \in Range(columns) : Found(c)} |->
                 row[ResultKey(names, row, col)]]

\* DatabaseEngine._select_with_joins: [ok, rows, at], at the positions the
\* returned rows were joined from
SelectWithJoins(d, t, columns, where, joins) ==
    LET joined == JoinedRows(d, t, joins)
        kept == FilterJoined(d, joined.names, joined.at, where)
    IN  IF ~joined.ok THEN [ok |-> FALSE, rows |-> <<>>, at |-> <<>>]
        ELSE [ok |-> TRUE,
              rows |-> [k \in 1..Len(kept) |->
                           ResultRow(joined.names, CombinedRow(d, joined.names, kept[k]),
                                     columns)],
              at |-> kept]

(***************************************************************************)
(* The inputs of the two worlds the engine is run in.                      *)
(*   single-table world: u(id INT PRIMARY KEY AUTO_INCREMENT,              *)
(*                         email TEXT UNIQUE)                              *)
(*   foreign-key world:  p, c and g, each (id INT PRIMARY KEY, ref INT),   *)
(*                       with the foreign key of ref chosen at CREATE      *)
(***************************************************************************)
FK(table, column, on_delete) ==
    [references_table |-> table, references_column |-> column, on_delete |-> on_delete]

UColumns == <<ColDef("id", "INT", TRUE, FALSE, TRUE, TRUE, NoFK),
              ColDef("email", "TEXT", FALSE, TRUE, FALSE, TRUE, NoFK)>>

RefColumns(fk) == <<ColDef("id", "INT", TRUE, FALSE, FALSE, TRUE, NoFK),
                    ColDef("ref", "INT", FALSE, FALSE, FALSE, TRUE, fk)>>

UCatalog == {[t |-> "u", columns |-> UColumns]}

\* the foreign-key graphs of the foreign-key world: the foreign key of the ref
\* column of p, c and g
FkGraphs ==
    {[p |-> NoFK, c |-> FK("p", "id", "CASCADE"), g |-> FK("p", "id", "RESTRICT")],
     [p |-> NoFK, c |-> FK("p", "id", "CASCADE"), g |-> FK("c", "id", "RESTRICT")],
     [p |-> NoFK, c |-> FK("p", "id", "CASCADE"), g |-> FK("c", "id", "CASCADE")],
     [p |-> FK("c", "id", "CASCADE"), c |-> FK("p", "id", "CASCADE"),
      g |-> FK("c", "id", "CASCADE")]}

\* the storage after CREATE TABLE p, c and g with the foreign keys of graph
CreatedGraph(graph) ==
    LET empty == [t \in {} |-> 0]
        d1 == CreateTableOp(empty, "p", RefColumns(graph.p)).db
        d2 == CreateTableOp(d1, "c", RefColumns(graph.c)).db
    IN  CreateTableOp(d2, "g", RefColumns(graph.g)).db

Emails == {<<"a">>, <<"A">>}

\* the primary-key values supplied or generated in the single-table world
Ids == {1, 2, 3}

UIdInputs == {Null, IntV(1), IntV(2)}

UEmailInputs == {Null} \cup {TextV(e) : e \in Emails}

\* value lists of INSERT: one value per column, the auto-increment column left
\* out, and a value of the wrong type
UInserts == {<<i, e>> : i \in UIdInputs, e \in UEmailInputs}
               \cup {<<e>> : e \in UEmailInputs}
               \cup {<<TextV(<<"a">>), Null>>}

\* assignments of UPDATE: to one column, to both, Null for the not-null column
\* and a value of the wrong type
UAssignments ==
    {[c \in {"id"} |-> i] : i \in {Null, IntV(2), IntV(3), TextV(<<"a">>)}}
        \cup {[c \in {"email"} |-> e] : e \in UEmailInputs}
        \cup {[c \in {"id", "email"} |-> IF c = "id" THEN IntV(3) ELSE TextV(<<"a">>)]}

\* the WHERE clauses SELECT is run with
UWheres == {NoWhere, Where("email", Null), Where("email", LikeV(<<"a">>))}
              \cup {Where("id", IntV(k)) : k \in Ids}
              \cup {Where("email", TextV(e)) : e \in Emails}

\* the WHERE clauses UPDATE and DELETE are run with
UChanges == {NoWhere, Where("email", TextV(<<"a">>)), Where("id", IntV(1)),
             Where("id", IntV(2))}

FkIds == {IntV(1), IntV(2)}

FkInserts == {<<i, r>> : i \in FkIds, r \in FkIds \cup {Null}}

FkWheres == {NoWhere} \cup {Where("id", i) : i \in FkIds}

UWorld == [tables |-> {"u"}, catalog |-> UCatalog, inserts |-> UInserts,
           assignments |-> UAssignments, changes |-> UChanges, wheres |-> UWheres]

FkWorld == [tables |-> {"c", "g", "p"}, inserts |-> FkInserts, changes |-> FkWheres]

\* the model's bounds on a storage state
WithinBounds(d) ==
    /\ "u" \in DOMAIN d =>
          /\ Len(d["u"].data) <= MaxRows
          /\ d["u"].schema.auto_increment_counter \in Ids \cup {0}
    /\ SumRows(d, (DOMAIN d) \ {"u"}) <= MaxFkRows
    /\ "s" \in DOMAIN d => Len(d["s"].data) <= MaxSchemaRows
    /\ \A t \in (DOMAIN d) \ {"u"} : d[t].schema.auto_increment_counter <= MaxCounter

(***************************************************************************)
(* The state machine: one action per executor operation.  last records the *)
(* operation that ran last: its name, table, outcome and returned count.   *)
(***************************************************************************)
Ran(op, t, ok, n) == [op |-> op, t |-> t, ok |-> ok, n |-> n]

CreateTable(W) ==
    \E e \in W.catalog :
        LET Apply(res) == /\ WithinBounds(res.db)
                          /\ db' = res.db
                          /\ last' = Ran("create", e.t, res.ok, res.n)
                          /\ pending' = pending
        IN  Apply(CreateTableOp(db, e.t, e.columns))

Insert(W) ==
    \E t \in W.tables, values \in W.inserts :
        LET Apply(res) == /\ WithinBounds(res.db)
                          /\ db' = res.db
                          /\ last' = Ran("insert", t, res.ok, res.n)
                          /\ pending' = pending
        IN  Apply(InsertOp(db, t, values))

Update(W) ==
    \E t \in W.tables, a \in W.assignments, w \in W.changes :
        LET Apply(res) == /\ WithinBounds(res.db)
                          /\ db' = res.db
                          /\ last' = Ran("update", t, res.ok, res.n)
                          /\ pending' = pending
        IN  Apply(UpdateOp(db, t, a, w))

Delete(W) ==
    \E t \in W.tables, w \in W.changes :
        LET Apply(res) == /\ WithinBounds(res.db)
                          /\ db' = res.db
                          /\ last' = Ran("delete", t, res.ok, res.n)
                          /\ pending' = pending
        IN  Apply(DeleteOp(db, t, w))

Select(W) ==
    \E t \in W.tables, w \in W.wheres :
        LET Apply(res) == /\ db' = db
                          /\ last' = Ran("select", t, res.ok, Len(res.rows))
                          /\ pending' = pending
        IN  Apply(SelectOp(db, t, <<>>, w))

Init == /\ db = [t \in {} |-> 0]
        /\ last = Ran("none", NoName, TRUE, 0)
        /\ pending = <<>>

Next == \/ CreateTable(UWorld)
        \/ Insert(UWorld)
        \/ Update(UWorld)
        \/ Delete(UWorld)
        \/ Select(UWorld)

Spec == Init /\ [][Next]_vars

InitFk == /\ db \in {CreatedGraph(graph) : graph \in FkGraphs}
          /\ last = Ran("create", "g", TRUE, 0)
          /\ pending = <<>>

NextFk == \/ Insert(FkWorld)
          \/ Delete(FkWorld)

SpecFk == InitFk /\ [][NextFk]_vars

(***************************************************************************)
(* The world of the foreign keys DELETE passes over: p without primary     *)
(* key, foreign keys that refer to a column that is no primary key, and    *)
(* tables that refer to themselves.                                        *)
(***************************************************************************)
\* the columns id and ref of a table without primary key
PlainColumns(fk) == <<ColDef("id", "INT", FALSE, FALSE, FALSE, TRUE, NoFK),
                      ColDef("ref", "INT", FALSE, FALSE, FALSE, TRUE, fk)>>

\* the columns of p, c and g
PassedOverGraphs ==
    {[p |-> PlainColumns(NoFK),
      c |-> RefColumns(FK("p", "id", "CASCADE")),
      g |-> RefColumns(FK("p", "id", "RESTRICT"))],
     [p |-> RefColumns(NoFK),
      c |-> RefColumns(FK("p", "ref", "CASCADE")),
      g |-> RefColumns(FK("p", "ref", "RESTRICT"))],
     [p |-> RefColumns(FK("p", "id", "RESTRICT")),
      c |-> RefColumns(FK("c", "id", "CASCADE")),
      g |-> RefColumns(NoFK)]}

\* the storage after CREATE TABLE p, c and g with the columns of graph
CreatedTables(graph) ==
    LET empty == [t \in {} |-> 0]
        d1 == CreateTableOp(empty, "p", graph.p).db
        d2 == CreateTableOp(d1, "c", graph.c).db
    IN  CreateTableOp(d2, "g", graph.g).db

InitPassedOver == /\ db \in {CreatedTables(graph) : graph \in PassedOverGraphs}
                  /\ last = Ran("create", "g", TRUE, 0)
                  /\ pending = <<>>

NextPassedOver == \/ Insert(FkWorld)
                  \/ Delete(FkWorld)

SpecPassedOver == InitPassedOver /\ [][NextPassedOver]_vars

(***************************************************************************)
(* The join world: u as in the single-table world, c and g as in the       *)
(* foreign-key world with no foreign key declared, so that id is a column  *)
(* of every table, ref of c and g only, and email of u only.               *)
(***************************************************************************)
\* the queries of the join world: the first table and its joins
JoinQueries ==
    {[t |-> "u", joins |-> <<JoinDef("c", "u", "id", "c", "ref")>>],
     [t |-> "c", joins |-> <<JoinDef("u", "c", "ref", "u", "id")>>],
     [t |-> "u", joins |-> <<JoinDef("c", "u", "id", "c", "ref"),
                             JoinDef("g", "c", "id", "g", "ref")>>]}

\* a table joined to itself: the rows of c with the row of c they refer to
SelfJoins == {[t |-> "c", joins |-> <<JoinDef("c", "c", "ref", "c", "id")>>]}

\* the WHERE clauses of the join world: unqualified and qualified names, a
\* Text value in another case, an Int column compared with a string, and LIKE
JoinWheres ==
    {NoQWhere, QWhere(NoName, "id", IntV(1)), QWhere(NoName, "ref", IntV(1)),
     QWhere("u", "id", IntV(1)), QWhere("c", "id", IntV(1)),
     QWhere("g", "ref", IntV(1)), QWhere(NoName, "email", TextV(<<"A">>)),
     QWhere(NoName, "id", TextV(<<"1">>)), QWhere(NoName, "email", LikeV(<<"a">>))}

\* the column lists of the join world; <<>> stands for SELECT *
JoinColumns ==
    {<<>>, <<QName(NoName, "id")>>, <<QName(NoName, "ref")>>,
     <<QName("c", "id"), QName(NoName, "email")>>}

JoinLeft == [tables |-> {"u"}, inserts |-> {<<e>> : e \in UEmailInputs},
             assignments |-> {[c \in {"email"} |-> TextV(<<"a">>)]},
             changes |-> {NoWhere}, wheres |-> UWheres]

\* rows of c: ref is the id of a row of u, present or not
JoinRight == [tables |-> {"c"}, inserts |-> {<<i, r>> : i \in FkIds, r \in FkIds}]

\* rows of g: ref is the id of a row of c, or Null
JoinThird == [tables |-> {"g"}, inserts |-> {<<IntV(1), r>> : r \in {IntV(1), Null}}]

JoinWorld == [queries |-> JoinQueries \cup SelfJoins, wheres |-> JoinWheres, columns |-> JoinColumns]

SelectJoined(W) ==
    \E q \in W.queries, columns \in W.columns, w \in W.wheres :
        LET Apply(res) == /\ db' = db
                          /\ last' = Ran("select", q.t, res.ok, Len(res.rows))
                          /\ pending' = pending
        IN  Apply(SelectWithJoins(db, q.t, columns, w, q.joins))

InitJoin ==
    /\ db = LET empty == [t \in {} |-> 0]
                d1 == CreateTableOp(empty, "u", UColumns).db
                d2 == CreateTableOp(d1, "c", RefColumns(NoFK)).db
            IN  CreateTableOp(d2, "g", RefColumns(NoFK)).db
    /\ last = Ran("create", "g", TRUE, 0)
    /\ pending = <<>>

NextJoin == \/ Insert(JoinLeft)
            \/ Insert(JoinRight)
            \/ Insert(JoinThird)
            \/ Update(JoinLeft)
            \/ Select(JoinLeft)
            \/ SelectJoined(JoinWorld)

SpecJoin == InitJoin /\ [][NextJoin]_vars

(***************************************************************************)
(* The world of all operations: p, c and g with the foreign keys of the    *)
(* foreign-key world, written by INSERT, UPDATE and DELETE and read by      *)
(* SELECT with and without joins, with calls that succeed and calls that   *)
(* fail (lists of one value, an unknown column, a table that is missing).  *)
(***************************************************************************)
AllOpsWorld ==
    [tables |-> {"c", "g", "p"},
     inserts |-> {<<IntV(1), Null>>, <<IntV(1), IntV(1)>>, <<IntV(2), IntV(1)>>, <<IntV(1)>>},
     assignments |-> {[c \in {"ref"} |-> IntV(1)], [c \in {"id"} |-> IntV(1)],
                      [c \in {"email"} |-> Null]},
     changes |-> {NoWhere, Where("id", IntV(1))},
     wheres |-> {NoWhere, Where("id", IntV(1)), Where("email", Null)},
     queries |-> {[t |-> "c", joins |-> <<JoinDef("p", "c", "ref", "p", "id")>>],
                  [t |-> "p", joins |-> <<JoinDef("u", "p", "id", "u", "id")>>]},
     columns |-> {<<>>},
     joinWheres |-> {NoQWhere, QWhere("c", "id", IntV(1))}]

AllOpsJoins == [queries |-> AllOpsWorld.queries, columns |-> AllOpsWorld.columns,
                wheres |-> AllOpsWorld.joinWheres]

\* c deleted with p, and g that holds p or is deleted with c
AllOpsGraphs ==
    {[p |-> NoFK, c |-> FK("p", "id", "CASCADE"), g |-> FK("p", "id", "RESTRICT")],
     [p |-> NoFK, c |-> FK("p", "id", "CASCADE"), g |-> FK("c", "id", "CASCADE")]}

InitAllOps == /\ db \in {CreatedGraph(graph) : graph \in AllOpsGraphs}
              /\ last = Ran("create", "g", TRUE, 0)
              /\ pending = <<>>

NextAllOps == \/ Insert(AllOpsWorld)
              \/ Update(AllOpsWorld)
              \/ Delete(AllOpsWorld)
              \/ Select(AllOpsWorld)
              \/ SelectJoined(AllOpsJoins)

SpecAllOps == InitAllOps /\ [][NextAllOps]_vars

(***************************************************************************)
(* The typed world: m and k, each (n INT, x FLOAT) with no key, given      *)
(* values of every Python type the parser produces, and joined on columns  *)
(* of different types and on the nullable column x.                        *)
(***************************************************************************)
TypedColumns == <<ColDef("n", "INT", FALSE, FALSE, FALSE, TRUE, NoFK),
                  ColDef("x", "FLOAT", FALSE, FALSE, FALSE, TRUE, NoFK)>>

\* values given for the INT column: an int, a float with a fraction, a bool,
\* a string that is no integer, and Null
TypedInts == {Null, IntV(1), FloatV(15), BoolV(TRUE), TextV(<<"1", ".", "5">>)}

\* values given for the FLOAT column
TypedFloats == {Null, IntV(1), FloatV(15)}

TypedWorld == [tables |-> {"k", "m"},
               inserts |-> {<<n, x>> : n \in TypedInts, x \in TypedFloats},
               assignments |-> {[c \in {"n"} |-> FloatV(15)], [c \in {"x"} |-> IntV(1)],
                                [c \in {"n"} |-> BoolV(TRUE)]},
               changes |-> {NoWhere}]

TypedJoins == [queries |-> {[t |-> "m", joins |-> <<JoinDef("k", "m", "n", "k", "x")>>],
                            [t |-> "m", joins |-> <<JoinDef("k", "m", "x", "k", "x")>>]},
               wheres |-> {NoQWhere},
               columns |-> {<<>>}]

InitTyped ==
    /\ db = LET empty == [t \in {} |-> 0]
                d1 == CreateTableOp(empty, "m", TypedColumns).db
            IN  CreateTableOp(d1, "k", TypedColumns).db
    /\ last = Ran("create", "k", TRUE, 0)
    /\ pending = <<>>

NextTyped == \/ Insert(TypedWorld)
             \/ Update(TypedWorld)
             \/ SelectJoined(TypedJoins)

SpecTyped == InitTyped /\ [][NextTyped]_vars

(***************************************************************************)
(* The schema world: table s created from every list of up to two column   *)
(* definitions, a of type INT or TEXT and b of type INT, with every choice *)
(* of the flags, and from lists that are not valid; rows inserted from     *)
(* lists of none to three values.                                          *)
(***************************************************************************)
\* the definitions of column name: the types given, every choice of the flags
ColumnInputs(name, types) ==
    {ColDef(name, type, pk, uniq, auto, nullable, NoFK) :
        type \in types, pk \in BOOLEAN, uniq \in BOOLEAN,
        auto \in BOOLEAN, nullable \in BOOLEAN}

\* column lists create_table is given: no column, one, two, the same name
\* twice, a type that is not supported and a column without a name
SchemaInputs ==
    {<<>>}
        \cup {<<a>> : a \in ColumnInputs("a", {"INT", "TEXT"})}
        \cup {<<a, b>> : a \in ColumnInputs("a", {"INT", "TEXT"}),
                          b \in ColumnInputs("b", {"INT"})}
        \cup {<<a, a>> : a \in ColumnInputs("a", {"INT"})}
        \cup {<<ColDef("a", "DATE", FALSE, FALSE, FALSE, TRUE, NoFK)>>,
              <<ColDef(NoName, "INT", FALSE, FALSE, FALSE, TRUE, NoFK)>>}

\* the values given for a column of s: Null, the string null, an int, a text
SchemaValues == {Null, TextV(<<"n", "u", "l", "l">>), IntV(1), TextV(<<"a">>)}

SchemaInserts ==
    {<<>>, <<IntV(1), IntV(1), IntV(1)>>}
        \cup {<<v>> : v \in SchemaValues}
        \cup {<<v, w>> : v \in SchemaValues, w \in SchemaValues}

SchemaWorld == [tables |-> {"s"},
                catalog |-> {[t |-> "s", columns |-> columns] : columns \in SchemaInputs},
                inserts |-> SchemaInserts,
                assignments |-> {[c \in {n} |-> v] : n \in {"a", "b"}, v \in SchemaValues},
                changes |-> {NoWhere}]

NextSchema == \/ CreateTable(SchemaWorld)
              \/ Insert(SchemaWorld)
              \/ Update(SchemaWorld)

SpecSchema == Init /\ [][NextSchema]_vars

(***************************************************************************)
(* The counter world: p(id INT PRIMARY KEY, ref INT) and its child         *)
(* c(id INT PRIMARY KEY AUTO_INCREMENT, ref INT REFERENCES p(id) ON DELETE *)
(* CASCADE), so that rows with generated ids are removed by DELETE and by  *)
(* cascade.                                                                *)
(***************************************************************************)
AutoColumns == <<ColDef("id", "INT", TRUE, FALSE, TRUE, TRUE, NoFK),
                 ColDef("ref", "INT", FALSE, FALSE, FALSE, TRUE, FK("p", "id", "CASCADE"))>>

\* value lists of INSERT: a row of p, and rows of c with the id left out, given
\* as Null and supplied
CounterInserts == {<<IntV(1), Null>>, <<IntV(1)>>, <<Null, IntV(1)>>, <<IntV(2), IntV(1)>>}

AutoWorld == [tables |-> {"c", "p"}, inserts |-> CounterInserts,
              assignments |-> {[c \in {"id"} |-> IntV(3)], [c \in {"ref"} |-> Null]},
              changes |-> FkWheres]

InitAuto ==
    /\ db = LET empty == [t \in {} |-> 0]
                d1 == CreateTableOp(empty, "p", RefColumns(NoFK)).db
            IN  CreateTableOp(d1, "c", AutoColumns).db
    /\ last = Ran("create", "c", TRUE, 0)
    /\ pending = <<>>

NextAuto == \/ Insert(AutoWorld)
            \/ Update(AutoWorld)
            \/ Delete(AutoWorld)

SpecAuto == InitAuto /\ [][NextAuto]_vars

(***************************************************************************)
(* The pattern world: table u with texts of up to MaxLen characters, among *)
(* them the line feed, selected with LIKE patterns of up to MaxLen         *)
(* characters.                                                             *)
(***************************************************************************)
\* the sequences over S of length up to n
SeqsUpTo(S, n) == UNION {[1..k -> S] : k \in 0..n}

LikeTexts == SeqsUpTo({"a", "A", "b", LineFeed}, MaxLen)

LikePatterns == SeqsUpTo({"a", "A", "%", "_", LineFeed}, MaxLen)

LikeWorld == [tables |-> {"u"},
              inserts |-> {<<Null, Null>>} \cup {<<Null, TextV(x)>> : x \in LikeTexts},
              wheres |-> {Where("id", LikeV(<<"%">>))}
                            \cup {Where("email", LikeV(x)) : x \in LikePatterns}]

InitLike ==
    /\ db = CreateTableOp([t \in {} |-> 0], "u", UColumns).db
    /\ last = Ran("create", "u", TRUE, 0)
    /\ pending = <<>>

NextLike == \/ Insert(LikeWorld)
            \/ Select(LikeWorld)

SpecLike == InitLike /\ [][NextLike]_vars

(***************************************************************************)
(* The SQL text parser.  A command is a sequence of characters; the        *)
(* regular expressions of the parser are written out as searches for the   *)
(* positions they match at.  White space is the blank.                     *)
(***************************************************************************)
IsSpace(c) == c = " "

\* str.strip()
RECURSIVE LStrip(_)
LStrip(x) == IF x # <<>> /\ IsSpace(Head(x)) THEN LStrip(Tail(x)) ELSE x

RECURSIVE RStrip(_)
RStrip(x) == IF x # <<>> /\ IsSpace(x[Len(x)]) THEN RStrip(SubSeq(x, 1, Len(x) - 1)) ELSE x

Strip(x) == RStrip(LStrip(x))

\* x[i - 1:]
From(x, i) == SubSeq(x, i, Len(x))

\* the characters kw stand at position i of x, in either letter case
KeywordAt(x, i, kw) ==
    /\ i >= 1 /\ i + Len(kw) - 1 <= Len(x)
    /\ Upper(SubSeq(x, i, i + Len(kw) - 1)) = kw

\* kw in x.upper()
Contains(x, kw) == \E i \in 1..Len(x) : KeywordAt(x, i, kw)

\* the first position from i on that holds no blank, Len(x) + 1 if none
RECURSIVE SkipSpaces(_, _)
SkipSpaces(x, i) == IF i <= Len(x) /\ IsSpace(x[i]) THEN SkipSpaces(x, i + 1) ELSE i

\* \w
IsWordChar(c) == \/ IsDigit(c) \/ c = "_"
                 \/ \E k \in 1..26 : UpperLetters[k] = c \/ LowerLetters[k] = c

\* the first position from i on that holds no word character
RECURSIVE SkipWord(_, _)
SkipWord(x, i) == IF i <= Len(x) /\ IsWordChar(x[i]) THEN SkipWord(x, i + 1) ELSE i

\* \s+KW matched at position i: the position after the keyword, 0 for no match
KeywordAfterSpaces(x, i, kw) ==
    LET k == SkipSpaces(x, i)
    IN  IF k > i /\ KeywordAt(x, k, kw) THEN k + Len(kw) ELSE 0

\* \s+KW\s+ matched at position i: the position after the match, 0 for no match
SeparatorAt(x, i, kw) ==
    LET k == KeywordAfterSpaces(x, i, kw)
    IN  IF k > 0 /\ SkipSpaces(x, k) > k THEN SkipSpaces(x, k) ELSE 0

\* the first position from i on where \s+KW\s+ matches, 0 if none
FirstSeparator(x, i, kw) ==
    IF \E k \in i..Len(x) : SeparatorAt(x, k, kw) > 0
    THEN CHOOSE k \in i..Len(x) :
             SeparatorAt(x, k, kw) > 0 /\ \A j \in i..(k - 1) : SeparatorAt(x, j, kw) = 0
    ELSE 0

\* re.split(r'\s+KW\s+', x, flags=re.IGNORECASE)
RECURSIVE SplitOnKeyword(_, _)
SplitOnKeyword(x, kw) ==
    LET k == FirstSeparator(x, 1, kw)
    IN  IF k = 0 THEN <<x>>
        ELSE <<SubSeq(x, 1, k - 1)>> \o SplitOnKeyword(From(x, SeparatorAt(x, k, kw)), kw)

\* the first position of character c in x, 0 if none
FirstChar(x, c) ==
    IF \E k \in 1..Len(x) : x[k] = c
    THEN CHOOSE k \in 1..Len(x) : x[k] = c /\ \A j \in 1..(k - 1) : x[j] # c
    ELSE 0

\* x.split(c)
RECURSIVE SplitOnChar(_, _)
SplitOnChar(x, c) ==
    LET k == FirstChar(x, c)
    IN  IF k = 0 THEN <<x>>
        ELSE <<SubSeq(x, 1, k - 1)>> \o SplitOnChar(From(x, k + 1), c)

Quotes == {"'", "\""}

\* "Normalize whitespace": one turn of the loop of parse at the character
\* char, after the character before, given the last character written so far
\* ("" when none) and the quote of the string the loop is in ("" outside a
\* string): what is written, and the quote for the next turn
NormalizeStep(char, before, written, string_char) ==
    IF string_char = "" /\ char \in Quotes
    THEN [out |-> <<char>>, string_char |-> char]
    ELSE IF string_char # "" /\ char = string_char
         THEN [out |-> <<char>>,
               string_char |-> IF before = "\\" THEN string_char ELSE ""]
    ELSE IF string_char = "" /\ IsSpace(char)
         THEN [out |-> IF written # "" /\ written # " " THEN <<" ">> ELSE <<>>,
               string_char |-> string_char]
    ELSE [out |-> <<char>>, string_char |-> string_char]

RECURSIVE NormalizeTurns(_, _, _, _, _)
\* the turns i..j of the loop, one after the other (the two halves of a
\* longer run in order): what they write, the last character written so far
\* and the quote for the turn after them
NormalizeTurns(command, i, j, written, string_char) ==
    LET step == NormalizeStep(command[i], IF i > 1 THEN command[i - 1] ELSE "",
                              written, string_char)
        mid == (i + j) \div 2
        first == NormalizeTurns(command, i, mid, written, string_char)
        second == NormalizeTurns(command, mid + 1, j, first.written, first.string_char)
    IN  IF i > j THEN [out |-> <<>>, written |-> written, string_char |-> string_char]
        ELSE IF i = j
             THEN [out |-> step.out,
                   written |-> IF step.out = <<>> THEN written ELSE step.out[1],
                   string_char |-> step.string_char]
        ELSE [out |-> first.out \o second.out, written |-> second.written,
              string_char |-> second.string_char]

\* the command as parse hands it to the statement parsers
Normalized(command) ==
    LET stripped == Strip(command)
        body == IF stripped # <<>> /\ stripped[Len(stripped)] = ";"
                THEN Strip(SubSeq(stripped, 1, Len(stripped) - 1)) ELSE stripped
    IN  Strip(NormalizeTurns(body, 1, Len(body), "", "").out)

\* _parse_single_value
ParseSingleValue(value_str) ==
    LET x == Strip(value_str)
        Quoted(q) == x # <<>> /\ x[1] = q /\ x[Len(x)] = q
    IN  IF Upper(x) = <<"N", "U", "L", "L">> THEN Null
        ELSE IF Quoted("'") \/ Quoted("\"") THEN TextV(SubSeq(x, 2, Len(x) - 1))
        ELSE IF Upper(x) = <<"T", "R", "U", "E">> THEN BoolV(TRUE)
        ELSE IF Upper(x) = <<"F", "A", "L", "S", "E">> THEN BoolV(FALSE)
        ELSE IF FirstChar(x, ".") > 0
             THEN IF IsFloatStr(x) THEN FloatV(StrToTenths(x)) ELSE TextV(x)
        ELSE IF IsIntStr(x) THEN IntV(StrToInt(x)) ELSE TextV(x)

\* the WHERE value of a LIKE whose pattern is no string
NoStringLikeV == [t |-> "dict", i |-> 1, s |-> <<>>]

\* no WHERE clause in a parsed command
NoClause == [ok |-> TRUE, given |-> FALSE, col |-> <<>>, value |-> Null]

\* _parse_where_clause: [ok, col, value], col as written; ok = FALSE stands
\* for the ValueError
ParseWhereClause(where_str) ==
    LET x == Strip(where_str)
        parts == SplitOnKeyword(x, <<"L", "I", "K", "E">>)
        eq == FirstChar(x, "=")
    IN  IF Contains(x, <<" ", "L", "I", "K", "E", " ">>) /\ Len(parts) = 2
        THEN [ok |-> TRUE, given |-> TRUE, col |-> Strip(parts[1]),
              value |-> LET pattern == ParseSingleValue(parts[2])
                        IN  IF pattern.t = "text" THEN LikeV(pattern.s)
                            ELSE NoStringLikeV]
        ELSE IF eq > 0
             THEN [ok |-> TRUE, given |-> TRUE, col |-> Strip(SubSeq(x, 1, eq - 1)),
                   value |-> ParseSingleValue(From(x, eq + 1))]
        ELSE [ok |-> FALSE, given |-> TRUE, col |-> <<>>, value |-> Null]

\* "Parse columns": None (here the empty list) for *, else the names
ParseColumns(columns_str) ==
    IF Strip(columns_str) = <<"*">> THEN <<>>
    ELSE LET parts == SplitOnChar(Strip(columns_str), ",")
         IN  [k \in 1..Len(parts) |-> Strip(parts[k])]

\* a command that is not parsed: the ValueError
NoRequest == [ok |-> FALSE, table_name |-> <<>>, columns |-> <<>>, star |-> FALSE,
              where_clause |-> NoClause, joins |-> <<>>, joined |-> FALSE]

\* the request a SELECT parses to; joined = FALSE stands for "joins": None
Request(columns_str, table_name, where_clause, joined, joins) ==
    [ok |-> where_clause.ok, table_name |-> table_name,
     columns |-> ParseColumns(columns_str), star |-> Strip(columns_str) = <<"*">>,
     where_clause |-> where_clause, joins |-> joins, joined |-> joined]

SelectWord == <<"S", "E", "L", "E", "C", "T">>

\* the optional group (?:\s+WHERE\s+(.+))?$ matched at position i: the
\* position of group 3, Len(x) + 1 when the group is absent, 0 for no match
WhereGroupAt(x, i) ==
    LET h == SeparatorAt(x, i, <<"W", "H", "E", "R", "E">>)
    IN  IF i = Len(x) + 1 THEN i
        ELSE IF h > 0 /\ h <= Len(x) THEN h
        ELSE 0

\* \s+FROM\s+(\w+)(?:\s+WHERE\s+(.+))?$ matched at position i:
\* [ok, table, where], where the position of group 3
FromTableAt(x, i) ==
    LET f == SeparatorAt(x, i, <<"F", "R", "O", "M">>)
        w == SkipWord(x, f)
    IN  IF f > 0 /\ w > f /\ WhereGroupAt(x, w) > 0
        THEN [ok |-> TRUE, table |-> SubSeq(x, f, w - 1), where |-> WhereGroupAt(x, w)]
        ELSE [ok |-> FALSE, table |-> <<>>, where |-> 0]

\* the WHERE clause from position h of the command, absent at its end
WhereFrom(x, h) == IF h > Len(x) THEN NoClause ELSE ParseWhereClause(From(x, h))

\* \s+FROM\s+(.+?)(?:\s+WHERE\s+(.+))?$ matched at position i:
\* [ok, from_clause, where]
FromClauseAt(x, i) ==
    LET f == SeparatorAt(x, i, <<"F", "R", "O", "M">>)
        Ends(e) == WhereGroupAt(x, e + 1) > 0
        e == CHOOSE k \in f..Len(x) : Ends(k) /\ \A j \in f..(k - 1) : ~Ends(j)
    IN  IF f > 0 /\ f <= Len(x)
        THEN [ok |-> TRUE, from_clause |-> SubSeq(x, f, e), where |-> WhereGroupAt(x, e + 1)]
        ELSE [ok |-> FALSE, from_clause |-> <<>>, where |-> 0]

\* parse_table_column of _parse_on_clause: [ok, table, column]
ParseTableColumn(expr) ==
    LET k == FirstChar(expr, ".")
    IN  IF k = 0 THEN [ok |-> FALSE, table |-> <<>>, column |-> <<>>]
        ELSE [ok |-> TRUE, table |-> Strip(SubSeq(expr, 1, k - 1)),
              column |-> Strip(From(expr, k + 1))]

\* one join of a parsed command that did not parse
NoJoin == [ok |-> FALSE, table |-> <<>>, left_table |-> <<>>, left_column |-> <<>>,
           right_table |-> <<>>, right_column |-> <<>>]

\* _parse_on_clause, for the table joined
ParseOnClause(table, on_str) ==
    LET x == Strip(on_str)
        k == FirstChar(x, "=")
        left == ParseTableColumn(Strip(SubSeq(x, 1, k - 1)))
        right == ParseTableColumn(Strip(From(x, k + 1)))
    IN  IF k = 0 THEN NoJoin
        ELSE IF ~left.ok \/ ~right.ok THEN NoJoin
        ELSE [ok |-> TRUE, table |-> table,
              left_table |-> left.table, left_column |-> left.column,
              right_table |-> right.table, right_column |-> right.column]

\* "Parse each JOIN": (\w+)\s+ON\s+(.+?)(?:\s+JOIN\s+|\s+WHERE\s+|$) matched
\* at the start of join_part, then _parse_on_clause
ParseJoinPart(join_part) ==
    LET w == SkipWord(join_part, 1)
        o == SeparatorAt(join_part, w, <<"O", "N">>)
        Ends(e) == \/ e = Len(join_part)
                   \/ SeparatorAt(join_part, e + 1, <<"J", "O", "I", "N">>) > 0
                   \/ SeparatorAt(join_part, e + 1, <<"W", "H", "E", "R", "E">>) > 0
        e == CHOOSE k \in o..Len(join_part) : Ends(k) /\ \A j \in o..(k - 1) : ~Ends(j)
    IN  IF w > 1 /\ o > 0 /\ o <= Len(join_part)
        THEN ParseOnClause(Strip(SubSeq(join_part, 1, w - 1)), SubSeq(join_part, o, e))
        ELSE NoJoin

\* _parse_select_with_join, for a command whose group 1 ends at position g
SelectWithJoinFrom(x, g) ==
    LET m == FromClauseAt(x, g + 1)
        parts == SplitOnKeyword(Strip(m.from_clause), <<"J", "O", "I", "N">>)
        joins == [k \in 1..(Len(parts) - 1) |-> ParseJoinPart(parts[k + 1])]
    IN  IF Len(parts) < 2 THEN NoRequest
        ELSE IF \E k \in 1..Len(joins) : ~joins[k].ok THEN NoRequest
        ELSE Request(SubSeq(x, 8, g), Strip(parts[1]), WhereFrom(x, m.where), TRUE, joins)

\* _parse_select_with_join
ParseSelectWithJoin(x) ==
    LET Ends(g) == FromClauseAt(x, g + 1).ok
    IN  IF KeywordAt(x, 1, SelectWord) /\ Len(x) >= 8 /\ IsSpace(x[7])
           /\ \E g \in 8..Len(x) : Ends(g)
        THEN SelectWithJoinFrom(x, CHOOSE g \in 8..Len(x) :
                                       Ends(g) /\ \A j \in 8..(g - 1) : ~Ends(j))
        ELSE NoRequest

\* _parse_select, for a command whose group 1 ends at position g
SelectFrom(x, g) ==
    LET m == FromTableAt(x, g + 1)
    IN  Request(SubSeq(x, 8, g), m.table, WhereFrom(x, m.where), FALSE, <<>>)

\* _parse_select: "Check for JOIN syntax", then SELECT\s+(.+?)\s+FROM\s+(\w+)
\* (?:\s+WHERE\s+(.+))?$ on the normalized command
ParseSelect(x) ==
    LET Ends(g) == FromTableAt(x, g + 1).ok
    IN  IF Contains(x, <<"J", "O", "I", "N">>) THEN ParseSelectWithJoin(x)
        ELSE IF KeywordAt(x, 1, SelectWord) /\ Len(x) >= 8 /\ IsSpace(x[7])
                /\ \E g \in 8..Len(x) : Ends(g)
             THEN SelectFrom(x, CHOOSE g \in 8..Len(x) :
                                    Ends(g) /\ \A j \in 8..(g - 1) : ~Ends(j))
        ELSE NoRequest

RECURSIVE ParseValuesFrom(_, _, _, _, _)
\* the loop of _parse_values from position i on, with the text of the value
\* under way, the quote of the string the loop is in and the values so far
ParseValuesFrom(values_str, i, current, string_char, values) ==
    LET char == values_str[i]
        WithCurrent == IF Strip(current) # <<>>
                       THEN Append(values, ParseSingleValue(Strip(current))) ELSE values
    IN  IF i > Len(values_str) THEN WithCurrent
        ELSE IF string_char = "" /\ char \in Quotes
             THEN ParseValuesFrom(values_str, i + 1, Append(current, char), char, values)
        ELSE IF string_char # "" /\ char = string_char
             THEN ParseValuesFrom(values_str, i + 1, Append(current, char),
                                  IF i > 1 /\ values_str[i - 1] = "\\" THEN string_char ELSE "",
                                  values)
        ELSE IF string_char = "" /\ char = ","
             THEN ParseValuesFrom(values_str, i + 1, <<>>, string_char, WithCurrent)
        ELSE ParseValuesFrom(values_str, i + 1, Append(current, char), string_char, values)

\* _parse_values
ParseValues(values_str) == ParseValuesFrom(values_str, 1, <<>>, "", <<>>)

\* the last position of character c in x, 0 if none
LastChar(x, c) ==
    IF \E k \in 1..Len(x) : x[k] = c
    THEN CHOOSE k \in 1..Len(x) : x[k] = c /\ \A j \in (k + 1)..Len(x) : x[j] # c
    ELSE 0

\* _parse_insert: INSERT\s+INTO\s+(\w+)\s+VALUES\s*\((.*)\) matched at the start
\* of the normalized command: [ok, table_name, values]
ParseInsert(x) ==
    LET t == SeparatorAt(x, 7, <<"I", "N", "T", "O">>)
        w == SkipWord(x, t)
        v == KeywordAfterSpaces(x, w, <<"V", "A", "L", "U", "E", "S">>)
        p == SkipSpaces(x, v)
        r == LastChar(x, ")")
    IN  IF /\ KeywordAt(x, 1, <<"I", "N", "S", "E", "R", "T">>)
           /\ t > 0 /\ w > t /\ v > 0
           /\ p <= Len(x) /\ x[p] = "(" /\ r > p
        THEN [ok |-> TRUE, table_name |-> SubSeq(x, t, w - 1),
              values |-> ParseValues(SubSeq(x, p + 1, r - 1))]
        ELSE [ok |-> FALSE, table_name |-> <<>>, values |-> <<>>]

(***************************************************************************)
(* The text world: table u, filled and read through SQL text as the REPL   *)
(* runs it: the command is parsed and the request handed to the engine.    *)
(***************************************************************************)
\* the names of the text world, as they are written
Spelling == [u |-> <<"u">>, id |-> <<"i", "d">>, email |-> <<"e", "m", "a", "i", "l">>]

\* a name that is no table and no column of the text world
Unknown == "?"

\* the name of the model a written name stands for
NameOf(x) == IF \E n \in DOMAIN Spelling : Spelling[n] = x
             THEN CHOOSE n \in DOMAIN Spelling : Spelling[n] = x
             ELSE Unknown

\* a column of a join request: table.column, or a column alone
QNameOf(x) ==
    LET k == FirstChar(x, ".")
    IN  IF k = 0 THEN QName(NoName, NameOf(x))
        ELSE QName(NameOf(SubSeq(x, 1, k - 1)), NameOf(From(x, k + 1)))

\* REPL: engine.select(table_name, columns, where_clause, joins) for a parsed
\* request: [ok, rows]
RunSelect(d, req) ==
    LET clause == req.where_clause
        joined == SelectWithJoins(
                      d, NameOf(req.table_name),
                      [k \in 1..Len(req.columns) |-> QNameOf(req.columns[k])],
                      IF clause.given THEN [col |-> QNameOf(clause.col), value |-> clause.value]
                      ELSE NoQWhere,
                      [k \in 1..Len(req.joins) |->
                          JoinDef(NameOf(req.joins[k].table),
                                  NameOf(req.joins[k].left_table),
                                  NameOf(req.joins[k].left_column),
                                  NameOf(req.joins[k].right_table),
                                  NameOf(req.joins[k].right_column))])
    IN  IF ~req.ok THEN [ok |-> FALSE, rows |-> <<>>]
        ELSE IF req.joined THEN [ok |-> joined.ok, rows |-> joined.rows]
        ELSE SelectOp(d, NameOf(req.table_name),
                      [k \in 1..Len(req.columns) |-> NameOf(req.columns[k])],
                      IF clause.given THEN Where(NameOf(clause.col), clause.value)
                      ELSE NoWhere)

\* the words of a command, one blank between two words
RECURSIVE Words(_)
Words(ws) == IF ws = <<>> THEN <<>>
             ELSE IF Len(ws) = 1 THEN ws[1]
             ELSE ws[1] \o <<" ">> \o Words(Tail(ws))

\* the names of a projection, a comma and a blank between two names
RECURSIVE Listed(_)
Listed(names) == IF Len(names) = 1 THEN names[1]
                 ELSE names[1] \o <<",", " ">> \o Listed(Tail(names))

\* a string literal in single quotes
Quote(text) == <<"'">> \o text \o <<"'">>

Star == <<"*">>

\* a predicate as the grammar has it: column = literal, or column LIKE string
Equals(col, literal, value) == [op |-> "=", col |-> col, literal |-> literal, value |-> value]

Like(col, pattern) == [op |-> "LIKE", col |-> col, literal |-> Quote(pattern),
                       value |-> LikeV(pattern)]

NoPredicate == [op |-> "", col |-> <<>>, literal |-> <<>>, value |-> Null]

\* the text of the SELECT without JOIN for a projection (<<>> for *), a table
\* and a predicate
SelectText(projection, table, predicate) ==
    Words(<<SelectWord, IF projection = <<>> THEN Star ELSE Listed(projection),
            <<"F", "R", "O", "M">>, table>>
          \o (IF predicate = NoPredicate THEN <<>>
              ELSE <<<<"W", "H", "E", "R", "E">>, predicate.col,
                     IF predicate.op = "=" THEN <<"=">> ELSE <<"L", "I", "K", "E">>,
                     predicate.literal>>))

\* the projections, tables and predicates of the SELECTs without JOIN: names
\* and literals with and without the letters JOIN, WHERE and LIKE in them
TextProjections == {<<>>, <<Spelling.id>>, <<Spelling.email, Spelling.id>>,
                    <<<<"j", "o", "i", "n", "_", "a", "t">>>>}

TextTables == {Spelling.u, <<"j", "o", "i", "n", "s">>}

TextPredicates ==
    {NoPredicate,
     Equals(Spelling.id, <<"1">>, IntV(1)),
     Equals(Spelling.email, Quote(<<"a">>), TextV(<<"a">>)),
     Equals(Spelling.email, Quote(<<"j", "o", "i", "n">>), TextV(<<"j", "o", "i", "n">>)),
     Equals(Spelling.email, Quote(<<"a", " ", "w", "h", "e", "r", "e", " ", "b">>),
            TextV(<<"a", " ", "w", "h", "e", "r", "e", " ", "b">>)),
     Equals(Spelling.email, Quote(<<"a", " ", "l", "i", "k", "e", " ", "b">>),
            TextV(<<"a", " ", "l", "i", "k", "e", " ", "b">>)),
     Like(Spelling.email, <<"a", "%">>)}

\* the SELECTs without JOIN, by their parts
TextSelects == [projection : TextProjections, table : TextTables, predicate : TextPredicates]

\* a SELECT with a JOIN: u joined to itself
JoinText ==
    Words(<<SelectWord, Star, <<"F", "R", "O", "M">>, Spelling.u, <<"J", "O", "I", "N">>,
            Spelling.u, <<"O", "N">>, <<"u", ".", "i", "d">>, <<"=">>, <<"u", ".", "i", "d">>>>)

\* literals in value position: NULL and booleans in several letter cases,
\* integers, a decimal, quoted strings and unquoted tokens
LiteralTokens ==
    {<<"N", "U", "L", "L">>, <<"n", "u", "L", "l">>, <<"T", "R", "U", "E">>,
     <<"f", "a", "l", "s", "e">>, <<"1">>, <<"2">>, <<"1", ".", "5">>,
     Quote(<<"a">>), Quote(<<"A">>), <<"\"", "a", "\"">>,
     Quote(<<"N", "U", "L", "L">>), Quote(<<"4", "2">>), <<"a">>, <<"1", "_", "0">>}

\* the text of INSERT INTO u VALUES (id, email)
InsertText(id, email) ==
    Words(<<<<"I", "N", "S", "E", "R", "T">>, <<"I", "N", "T", "O">>, Spelling.u,
            <<"V", "A", "L", "U", "E", "S">>, <<"(">> \o id \o <<",">>, email \o <<")">>>>)

TextWorld ==
    [selects |-> {SelectText(s.projection, s.table, s.predicate) : s \in TextSelects}
                    \cup {JoinText},
     inserts |-> {InsertText(id, email) :
                     id \in {<<"N", "U", "L", "L">>, <<"1">>, <<"2">>},
                     email \in LiteralTokens}]

\* REPL: an INSERT command parsed and run
ExecuteInsert(W) ==
    \E command \in W.inserts :
        \E req \in {ParseInsert(Normalized(command))} :
            LET Apply(res) == /\ WithinBounds(res.db)
                              /\ db' = res.db
                              /\ last' = Ran("insert", NameOf(req.table_name), res.ok, res.n)
                              /\ pending' = pending
            IN  Apply(IF req.ok THEN InsertOp(db, NameOf(req.table_name), req.values)
                      ELSE Failed(db))

\* REPL: a SELECT command parsed and run
ExecuteSelect(W) ==
    \E command \in W.selects :
        \E req \in {ParseSelect(Normalized(command))} :
            LET Apply(res) == /\ db' = db
                              /\ last' = Ran("select", NameOf(req.table_name), res.ok,
                                             Len(res.rows))
                              /\ pending' = pending
            IN  Apply(RunSelect(db, req))

InitText ==
    /\ db = CreateTableOp([t \in {} |-> 0], "u", UColumns).db
    /\ last = Ran("create", "u", TRUE, 0)
    /\ pending = <<>>

NextText == \/ ExecuteInsert(TextWorld)
            \/ ExecuteSelect(TextWorld)

SpecText == InitText /\ [][NextText]_vars

(***************************************************************************)
(* DELETE run call by call.  pending is the call stack of a DELETE under   *)
(* way, the innermost call last: the call of delete itself, then the calls *)
(* of _handle_foreign_key_constraints that have not returned.  A step runs *)
(* the innermost call up to its next call of _cascade_delete, its raise or *)
(* its return.                                                             *)
(***************************************************************************)
\* calls a DELETE of the model may have open: one per row, and the first two
MaxDepth == MaxFkRows + 3

\* the call of delete, after "Find rows to delete"
DeleteCall(t, rows_to_keep, deleted_count) ==
    [kind |-> "delete", t |-> t, keep |-> rows_to_keep, n |-> deleted_count,
     pk_values |-> {}, tables |-> <<>>, k |-> 0]

\* a call of _handle_foreign_key_constraints, at the start of its loops
HandleCall(d, t, pk_values) ==
    [kind |-> "handle", t |-> t, keep |-> <<>>, n |-> 0,
     pk_values |-> pk_values, tables |-> ListTables(d), k |-> 1]

RECURSIVE NextReference(_, _, _, _, _)
\* where the loops of _handle_foreign_key_constraints stop next, from foreign
\* key k of the first of tables on: at the first foreign key to the primary key
\* of t that rows of its table refer to with a deleted value; tables = <<>>
\* when the loops end
NextReference(d, t, pk_values, tables, k) ==
    IF tables = <<>> THEN [tables |-> <<>>, k |-> 1]
    ELSE IF Head(tables) = t \/ k > Len(d[Head(tables)].schema.foreign_keys)
         THEN NextReference(d, t, pk_values, Tail(tables), 1)
    ELSE LET fk == d[Head(tables)].schema.foreign_keys[k]
             Refers(row) == InValues(row[fk.column], pk_values)
         IN  IF /\ fk.references_table = t
                /\ fk.references_column = d[t].schema.primary_key
                /\ Keep(d[Head(tables)].data, Refers) # <<>>
             THEN [tables |-> tables, k |-> k]
             ELSE NextReference(d, t, pk_values, tables, k + 1)

\* the stop of the innermost call of _handle_foreign_key_constraints
StopOf(d, call) ==
    IF d[call.t].schema.primary_key = NoName \/ call.pk_values = {}
    THEN [tables |-> <<>>, k |-> 1]
    ELSE NextReference(d, call.t, call.pk_values, call.tables, call.k)

\* delete up to its call of _handle_foreign_key_constraints
BeginDelete(W) ==
    /\ pending = <<>>
    /\ \E t \in W.tables, w \in W.changes :
          LET found == WherePositions(db, t, w)
              rows == db[t].data
              call == DeleteCall(t, RowsToKeep(rows, found.positions), Len(found.positions))
          IN  /\ TableExists(db, t) /\ found.ok
              /\ pending' = IF found.positions = <<>> THEN <<call>>
                            ELSE <<call, HandleCall(db, t, PkValues(db[t].schema,
                                                   RowsAt(rows, found.positions)))>>
    /\ UNCHANGED <<db, last>>

\* the innermost call of _handle_foreign_key_constraints up to its return, its
\* raise for a RESTRICT foreign key, or its call of _cascade_delete, which
\* writes the child table and calls _handle_foreign_key_constraints again
HandleStep ==
    /\ pending # <<>>
    /\ pending[Len(pending)].kind = "handle"
    /\ LET top == pending[Len(pending)]
           rest == SubSeq(pending, 1, Len(pending) - 1)
           stop == StopOf(db, top)
           child == Head(stop.tables)
           fk == db[child].schema.foreign_keys[stop.k]
           pks == DeletedChildPks(db, child, fk.column, top.pk_values)
           written == CascadeWrite(db, child, fk.column, top.pk_values)
           resumed == [top EXCEPT !.tables = stop.tables, !.k = stop.k + 1]
       IN  IF stop.tables = <<>>
           THEN pending' = rest /\ UNCHANGED <<db, last>>
           ELSE IF fk.on_delete = "CASCADE"
                THEN /\ Len(pending) < MaxDepth
                     /\ db' = written
                     /\ pending' = rest \o <<resumed>> \o
                                   (IF pks # {} THEN <<HandleCall(written, child, pks)>>
                                    ELSE <<>>)
                     /\ last' = last
           ELSE /\ pending' = <<>>
                /\ last' = Ran("delete", pending[1].t, FALSE, 0)
                /\ db' = db

\* "Save remaining rows" and "Rebuild indexes after delete"
FinishDelete ==
    /\ pending # <<>>
    /\ pending[Len(pending)].kind = "delete"
    /\ LET top == pending[Len(pending)]
           saved == UpdateTableData(db, top.t, top.keep)
       IN  /\ db' = IF top.n > 0 THEN BuildAllIndexes(saved, top.t) ELSE saved
           /\ last' = Ran("delete", top.t, TRUE, top.n)
    /\ pending' = <<>>

InsertIdle(W) == pending = <<>> /\ Insert(W)

\* foreign-key graphs with a cycle of CASCADE foreign keys between p and c
CycleGraphs ==
    {[p |-> FK("c", "id", "CASCADE"), c |-> FK("p", "id", "CASCADE"),
      g |-> FK("c", "id", "CASCADE")],
     [p |-> FK("c", "id", "CASCADE"), c |-> FK("p", "id", "CASCADE"),
      g |-> FK("c", "id", "RESTRICT")]}

\* the INSERTs and DELETEs of the runs with DELETE call by call
CallsWorld == [tables |-> {"c", "g", "p"},
               inserts |-> {<<i, r>> : i \in FkIds, r \in {Null, IntV(1)}},
               changes |-> FkWheres]

InitCalls == /\ db \in {CreatedGraph(graph) : graph \in CycleGraphs}
             /\ last = Ran("create", "g", TRUE, 0)
             /\ pending = <<>>

NextCalls == \/ InsertIdle(CallsWorld)
             \/ BeginDelete(CallsWorld)
             \/ HandleStep
             \/ FinishDelete

\* a call that can run does run: the interpreter does not stop by itself
SpecCalls == InitCalls /\ [][NextCalls]_vars /\ WF_vars(HandleStep) /\ WF_vars(FinishDelete)

(***************************************************************************)
(* INSERT and UPDATE run write by write.  pending is the operation under   *)
(* way after its first write of the blob; a step is the next call of       *)
(* Storage.save_table.                                                     *)
(***************************************************************************)
\* insert up to "Insert the row": the checks and Storage.insert_row
BeginInsert(W) ==
    /\ pending = <<>>
    /\ \E t \in W.tables, values \in W.inserts :
          LET res == InsertOp(db, t, values)
              row == InsertedRow(db[t].schema, WithAutoPlaceholder(db[t].schema, values))
          IN  IF ~res.ok
              THEN /\ last' = Ran("insert", t, FALSE, 0)
                   /\ UNCHANGED <<db, pending>>
              ELSE /\ WithinBounds(res.db)
                   /\ db' = InsertRow(db, t, row)
                   /\ pending' = <<[kind |-> "insert", stage |-> "counter", t |-> t,
                                    row |-> row, row_index |-> Len(db[t].data)]>>
                   /\ last' = last

\* "Update auto_increment counter after insert", then "Update indexes"
InsertStep ==
    /\ pending # <<>>
    /\ pending[1].kind = "insert"
    /\ LET call == pending[1]
       IN  IF call.stage = "counter"
           THEN /\ db' = RaiseCounter(db, call.t, call.row)
                /\ pending' = <<[call EXCEPT !.stage = "indexes"]>>
                /\ last' = last
           ELSE /\ db' = UpdateIndexOnInsert(db, call.t, call.row, call.row_index)
                /\ pending' = <<>>
                /\ last' = Ran("insert", call.t, TRUE, 1)

\* update up to "Save updated rows": the checks and Storage.update_table_data
BeginUpdate(W) ==
    /\ pending = <<>>
    /\ \E t \in W.tables, a \in W.assignments, w \in W.changes :
          LET res == UpdateOp(db, t, a, w)
              found == WherePositions(db, t, w)
          IN  IF ~res.ok \/ res.n = 0
              THEN /\ last' = Ran("update", t, res.ok, 0)
                   /\ UNCHANGED <<db, pending>>
              ELSE /\ db' = UpdateTableData(db, t, UpdatedRows(db[t].schema, db[t].data, a,
                                                             found.positions))
                   /\ pending' = <<[kind |-> "update", t |-> t, old_rows |-> db[t].data,
                                    positions |-> found.positions, k |-> 1]>>
                   /\ last' = last

\* "Update indexes for changed rows": _update_index_on_update for the next row
UpdateStep ==
    /\ pending # <<>>
    /\ pending[1].kind = "update"
    /\ LET call == pending[1]
           p == call.positions[call.k]
       IN  /\ db' = UpdateIndexOnUpdate(db, call.t, call.old_rows[p], db[call.t].data[p],
                                        p - 1)
           /\ IF call.k < Len(call.positions)
              THEN pending' = <<[call EXCEPT !.k = call.k + 1]>> /\ last' = last
              ELSE pending' = <<>> /\ last' = Ran("update", call.t, TRUE, Len(call.positions))

DeleteIdle(W) == pending = <<>> /\ Delete(W)

InitWrites == /\ db = CreateTableOp([t \in {} |-> 0], "u", UColumns).db
              /\ last = Ran("create", "u", TRUE, 0)
              /\ pending = <<>>

NextWrites == \/ BeginInsert(UWorld)
              \/ InsertStep
              \/ BeginUpdate(UWorld)
              \/ UpdateStep
              \/ DeleteIdle(UWorld)

SpecWrites == InitWrites /\ [][NextWrites]_vars

(***************************************************************************)
(* Properties.                                                             *)
(***************************************************************************)
\* index holds exactly the entries of the rows: every non-Null value of column
\* c is a key, and every key maps to the positions of the rows holding it
IndexExact(rows, index, c) ==
    /\ \A p \in 1..Len(rows) : rows[p][c] # Null => JsonKey(rows[p][c]) \in DOMAIN index
    /\ \A k \in DOMAIN index : index[k] # <<>> /\ index[k] = PositionsOf(rows, c, k)

\* C1: in every table, every stored index maps each non-Null value of its
\* column to exactly the positions of the rows that hold it now, and has no
\* other key and no other position.
C1_IndexesMatchRows ==
    \A t \in DOMAIN db : \A c \in DOMAIN db[t].indexes :
        IndexExact(db[t].data, db[t].indexes[c], c)

\* C2: in every table with a primary key, no row has a Null primary key and no
\* two rows have the same primary-key value.
C2_PrimaryKeyDistinct ==
    \A t \in DOMAIN db :
        LET pk == db[t].schema.primary_key
            rows == db[t].data
        IN  pk # NoName =>
                /\ \A p \in 1..Len(rows) : rows[p][pk] # Null
                /\ \A p, q \in 1..Len(rows) : p # q => rows[p][pk] # rows[q][pk]

\* C3: for every column marked unique, the non-Null values of the column are
\* pairwise distinct across the rows of the table.
C3_UniqueDistinct ==
    \A t \in DOMAIN db : \A c \in DOMAIN db[t].schema.coldef :
        LET rows == db[t].data
        IN  db[t].schema.coldef[c].unique =>
                \A p, q \in 1..Len(rows) :
                    (p # q /\ rows[p][c] # Null) => rows[p][c] # rows[q][c]

\* C4: a DELETE that fails (here only a RESTRICT foreign key makes it fail)
\* leaves the rows and indexes of every table as they were.
C4_RestrictChangesNothing ==
    [][(last'.op = "delete" /\ ~last'.ok) => db' = db]_vars

\* the primary-key values that table t holds in d and no longer holds in e
RemovedPks(d, e, t) ==
    PkValues(d[t].schema, d[t].data) \ PkValues(e[t].schema, e[t].data)

\* row of table ch holds, in a CASCADE foreign key, a primary-key value removed
\* from the referenced table between d and e
RefersToRemoved(d, e, ch, row) ==
    \E k \in 1..Len(d[ch].schema.foreign_keys) :
        LET fk == d[ch].schema.foreign_keys[k]
        IN  /\ fk.on_delete = "CASCADE"
            /\ fk.references_table \in DOMAIN d
            /\ fk.references_table # ch
            /\ fk.references_column = d[fk.references_table].schema.primary_key
            /\ InValues(row[fk.column], RemovedPks(d, e, fk.references_table))

\* between d and e every row that refers to a removed row through a CASCADE
\* foreign key was removed, and the other rows of the tables other than t were
\* kept in their order
CascadeApplied(d, e, t) ==
    \A ch \in DOMAIN d :
        LET Stays(row) == ~RefersToRemoved(d, e, ch, row)
        IN  /\ \A p \in 1..Len(e[ch].data) : Stays(e[ch].data[p])
            /\ ch # t => e[ch].data = Keep(d[ch].data, Stays)

\* C5: after a successful DELETE, every row whose CASCADE foreign key held the
\* primary key of a removed row is removed, recursively, and every child row
\* that referred to no removed row is kept in its original relative order.
C5_CascadeComplete ==
    [][(last'.op = "delete" /\ last'.ok) => CascadeApplied(db, db', last'.t)]_vars

Max(a, b) == IF a >= b THEN a ELSE b

RECURSIVE LargestPk(_, _)
\* the largest primary-key value of the rows (0 for no row)
LargestPk(rows, pk) == IF rows = <<>> THEN 0
                       ELSE Max(Head(rows)[pk].i, LargestPk(Tail(rows), pk))

\* C6: in a table with an auto-increment primary key, after a successful
\* INSERT the counter is at least the primary-key value of every row.
C6_CounterCoversKeys ==
    (last.op = "insert" /\ last.ok) =>
        LET schema == db[last.t].schema
        IN  schema.auto_increment # NoName =>
                schema.auto_increment_counter
                    >= LargestPk(db[last.t].data, schema.auto_increment)

\* value lists that leave the generation of the id of table u to INSERT: Null,
\* the NULL literal, and no value for the column
AutoInserts == {<<Null, Null>>, <<TextV(<<"n", "u", "l", "l">>), Null>>, <<Null>>}

\* C7: an INSERT that leaves the auto-increment value to the engine succeeds
\* and stores max(counter, largest primary key in the table) + 1.
C7_GeneratedIdIsFresh ==
    "u" \in DOMAIN db =>
        \A values \in AutoInserts :
            LET res == InsertOp(db, "u", values)
                rows == res.db["u"].data
            IN  /\ res.ok
                /\ rows[Len(rows)]["id"] =
                      IntV(Max(db["u"].schema.auto_increment_counter,
                               LargestPk(db["u"].data, "id")) + 1)

\* the equality filters with a non-Null value on the indexed columns of table u
IndexedFilters == {Where("id", IntV(k)) : k \in Ids}
                     \cup {Where("email", TextV(e)) : e \in Emails}

\* C8: SELECT with one equality filter on an indexed column returns the rows
\* that a full scan with the same filter returns, in the same order.
C8_IndexEqualsScan ==
    "u" \in DOMAIN db =>
        \A w \in IndexedFilters :
            /\ SelectOp(db, "u", <<>>, w).ok
            /\ SelectOp(db, "u", <<>>, w).rows
                  = RowsAt(db["u"].data, ScanPositions(db, "u", w))

\* C9: the rows UPDATE and DELETE match with a WHERE predicate are the rows a
\* SELECT without joins returns for the same predicate.
C9_SameRowsAsSelect ==
    "u" \in DOMAIN db =>
        \A w \in UWheres :
            WherePositions(db, "u", w) = SelectPositions(db, "u", w)

\* the cell an assignment of new_value to a column of the given type stores
AssignedCell(new_value, type) ==
    IF IsNullLiteral(new_value) THEN Null ELSE ValidateValueType(new_value, type).v

\* e holds the rows of d with every assignment stored in the rows at positions
\* and nothing else changed
CarriesAssignments(d, e, assignments, positions) ==
    /\ Len(e["u"].data) = Len(d["u"].data)
    /\ \A p \in 1..Len(d["u"].data) : \A c \in DOMAIN d["u"].data[p] :
          e["u"].data[p][c] =
              IF InSeq(p, positions) /\ c \in DOMAIN assignments
              THEN AssignedCell(assignments[c], d["u"].schema.coldef[c].type)
              ELSE d["u"].data[p][c]

\* C10: an UPDATE is all-or-nothing: when it fails (type coercion, not-null,
\* primary-key or unique violation) the rows, the indexes and the counter are
\* unchanged; when it succeeds every matched row carries every assignment and
\* no other cell changes.
C10_UpdateAllOrNothing ==
    "u" \in DOMAIN db =>
        \A assignments \in UAssignments, where \in UChanges :
            LET res == UpdateOp(db, "u", assignments, where)
                found == WherePositions(db, "u", where)
            IN  IF res.ok
                THEN /\ res.n = Len(found.positions)
                     /\ CarriesAssignments(db, res.db, assignments, found.positions)
                ELSE res.db = db

\* an UPDATE has just failed, and in this state an UPDATE that matches several
\* rows fails although its first candidate row is changed and valid
C10_FailsAfterValidRow ==
    /\ last.op = "update" /\ ~last.ok
    /\ "u" \in DOMAIN db
    /\ \E assignments \in UAssignments, where \in UChanges :
          Len(WherePositions(db, "u", where).positions) >= 2 /\
          LET schema == db["u"].schema
              rows == db["u"].data
              found == WherePositions(db, "u", where)
              first == found.positions[1]
              row == UpdatedRow(schema, rows[first], assignments)
          IN  /\ found.ok
              /\ ~UpdateOp(db, "u", assignments, where).ok
              /\ \A c \in DOMAIN assignments : AssignCell(schema, c, assignments[c]).ok
              /\ row # rows[first]
              /\ ValidateRowConstraints(schema, rows, row, first)

\* value lists INSERT rejects for the column count, beside those of UInserts
MiscountedInserts == {<<>>, <<Null, Null, Null>>}

\* the storage of the first foreign-key graph, whose tables have a primary key
\* that is not generated
PlainKeyTables == CreatedGraph([p |-> NoFK, c |-> FK("p", "id", "CASCADE"),
                                g |-> FK("p", "id", "RESTRICT")])

\* C11: an INSERT that fails (missing table, column count mismatch, type
\* error, Null in a not-null column, primary-key or unique violation) leaves
\* the rows, the indexes and the auto_increment_counter unchanged.
C11_FailedInsertChangesNothing ==
    /\ \A values \in UInserts \cup MiscountedInserts :
          LET res == InsertOp(db, "u", values)
          IN  ~res.ok => res.db = db
    /\ LET res == InsertOp(PlainKeyTables, "p", <<Null, Null>>)
       IN  ~res.ok /\ res.db = PlainKeyTables

\* an INSERT has just failed, and in this state an INSERT whose id would be
\* generated fails on the unique column after passing the primary-key check
C11_GeneratedIdRejected ==
    /\ last.op = "insert" /\ ~last.ok
    /\ "u" \in DOMAIN db
    /\ \E e \in Emails :
          LET schema == db["u"].schema
              row == InsertedRow(schema, <<Null, TextV(e)>>)
          IN  /\ ~InsertOp(db, "u", <<Null, TextV(e)>>).ok
              /\ InsertPkOk(schema, db["u"].data, row)
              /\ ~InsertUniqueOk(schema, db["u"].data, row)

\* C12: every DELETE terminates: a DELETE under way has returned a count or
\* an error some time later, also when CASCADE foreign keys form a cycle and
\* rows refer to each other around it.
C12_DeleteTerminates == (pending # <<>>) ~> (pending = <<>>)

\* the cascade of a DELETE has come back to the table deleted from
C12_CascadeReenters ==
    \E i \in 3..Len(pending) :
        pending[i].kind = "handle" /\ pending[i].t = pending[1].t

\* no DELETE of the model needs more open calls than MaxDepth allows
DepthWithinBound == Len(pending) < MaxDepth

\* C13: for every foreign-key descriptor, every non-Null value in the
\* foreign-key column of the child table equals the value of the referenced
\* column in some row of the referenced table.
C13_ReferencesResolve ==
    \A t \in DOMAIN db : \A k \in 1..Len(db[t].schema.foreign_keys) :
        LET fk == db[t].schema.foreign_keys[k]
            rows == db[t].data
        IN  \A p \in 1..Len(rows) :
                rows[p][fk.column] # Null =>
                    /\ fk.references_table \in DOMAIN db
                    /\ \E q \in 1..Len(db[fk.references_table].data) :
                          db[fk.references_table].data[q][fk.references_column]
                              = rows[p][fk.column]

\* a row of table u other than row p holds an email equal to e, letter case
\* ignored
EmailTaken(rows, e, p) ==
    \E q \in 1..Len(rows) :
        q # p /\ rows[q]["email"].t = "text" /\ Lower(rows[q]["email"].s) = Lower(e)

\* C14: uniqueness of a Text column ignores letter case: an INSERT or UPDATE
\* that would give the unique column email a value that another row holds,
\* letter case ignored, fails and changes nothing.
C14_UniqueIgnoresCase ==
    "u" \in DOMAIN db =>
        \A e \in Emails :
            /\ EmailTaken(db["u"].data, e, 0) =>
                  LET res == InsertOp(db, "u", <<Null, TextV(e)>>)
                  IN  ~res.ok /\ res.db = db
            /\ \A w \in UChanges :
                  LET found == WherePositions(db, "u", w)
                      res == UpdateOp(db, "u", [c \in {"email"} |-> TextV(e)], w)
                  IN  (\E k \in 1..Len(found.positions) :
                          EmailTaken(db["u"].data, e, found.positions[k]))
                      => ~res.ok /\ res.db = db

\* C15: during an INSERT or UPDATE the blob of the table is written once, at
\* the end: a step that leaves the operation under way does not change the
\* stored table, so every state in between is the state before the operation.
C15_WrittenOnceAtEnd == [][pending' # <<>> => db' = db]_vars

\* the rows at the positions that found does not hold, in order
Survivors(rows, positions) ==
    LET Left(p) == ~InSeq(p, positions)
    IN  RowsAt(rows, SelectSeq([p \in 1..Len(rows) |-> p], Left))

\* C17: row positions change only as stated: a successful INSERT places the
\* new row after the existing rows and moves none; a successful UPDATE keeps
\* the number of rows and, at every position, the cells it does not assign; a
\* successful DELETE keeps the surviving rows in their previous order.
C17_PositionsStable ==
    "u" \in DOMAIN db =>
        LET rows == db["u"].data
        IN  /\ \A values \in UInserts :
                  LET res == InsertOp(db, "u", values)
                  IN  res.ok => /\ Len(res.db["u"].data) = Len(rows) + 1
                                /\ SubSeq(res.db["u"].data, 1, Len(rows)) = rows
            /\ \A w \in UChanges :
                  /\ \A a \in UAssignments :
                        LET res == UpdateOp(db, "u", a, w)
                        IN  res.ok =>
                              /\ Len(res.db["u"].data) = Len(rows)
                              /\ \A p \in 1..Len(rows) :
                                    \A c \in (DOMAIN rows[p]) \ DOMAIN a :
                                        res.db["u"].data[p][c] = rows[p][c]
                  /\ LET res == DeleteOp(db, "u", w)
                     IN  res.ok => res.db["u"].data
                                     = Survivors(rows, WherePositions(db, "u", w).positions)

\* an INSERT into a table that holds rows has just succeeded
C17_InsertedAfterRows ==
    /\ last.op = "insert" /\ last.ok
    /\ Len(db[last.t].data) >= 2

\* the equality filter holds for the row: the filter value coerced to the type
\* of the column, Text compared with letter case ignored, other values strictly
FilterHolds(schema, row, w) ==
    LET type == schema.coldef[w.col].type
        conv == ValidateValueType(w.value, type)
        cell == row[w.col]
    IN  /\ conv.ok
        /\ IF type = "TEXT" /\ cell.t = "text" /\ conv.v.t = "text"
           THEN Lower(cell.s) = Lower(conv.v.s)
           ELSE cell = conv.v

\* equality filters of table u, among them a value that cannot be coerced
EqualityFilters ==
    IndexedFilters \cup {Where("id", TextV(<<"a">>)), Where("id", TextV(<<"1">>))}

\* C18: a SELECT without joins returns exactly the rows for which the equality
\* filter holds after coercion of the filter value, Text compared with letter
\* case ignored; a value that cannot be coerced matches no row, without error.
C18_SelectFilters ==
    "u" \in DOMAIN db =>
        \A w \in EqualityFilters :
            LET Holds(row) == FilterHolds(db["u"].schema, row, w)
                res == SelectOp(db, "u", <<>>, w)
            IN  res.ok /\ res.rows = SelectSeq(db["u"].data, Holds)

\* at sequence a comes before at sequence b: base-table position first, then
\* the position in each joined table
ComesBefore(a, b) ==
    \E k \in 1..Len(a) : a[k] < b[k] /\ \A j \in 1..(k - 1) : a[j] = b[j]

\* C16: SELECT returns its rows in scan order.  Without joins the positions
\* of the returned rows ascend, whether they come from a scan or from an index;
\* with joins the returned rows ascend by the position of the base-table row
\* and, for one base-table row, by the position of the joined row, and the
\* WHERE clause and the column list leave that order as it is.
C16_ScanOrder ==
    /\ \A w \in UWheres :
           LET sel == SelectPositions(db, "u", w)
           IN  sel.ok => \A i, j \in 1..Len(sel.positions) :
                            i < j => sel.positions[i] < sel.positions[j]
    /\ \A q \in JoinQueries, w \in JoinWheres, columns \in JoinColumns :
           LET res == SelectWithJoins(db, q.t, columns, w, q.joins)
           IN  /\ Len(res.rows) = Len(res.at)
               /\ \A i, j \in 1..Len(res.at) :
                      i < j => ComesBefore(res.at[i], res.at[j])

\* an index of u lists two rows under one key and SELECT reads them through
\* it, a row of u is joined to two rows of c, and two rows of c are joined to
\* rows of u
C16_TwoRowsEachWay ==
    /\ GetIndexedRows(db, "u", "email", TextV(<<"a">>)).found
    /\ Len(SelectPositions(db, "u", Where("email", TextV(<<"a">>))).positions) = 2
    /\ \E q \in JoinQueries :
           LET at == SelectWithJoins(db, q.t, <<>>, NoQWhere, q.joins).at
           IN  \E i, j \in 1..Len(at) : at[i][1] = at[j][1] /\ at[i][2] < at[j][2]
    /\ \E q \in JoinQueries :
           LET at == SelectWithJoins(db, q.t, <<>>, NoQWhere, q.joins).at
           IN  \E i, j \in 1..Len(at) : at[i][1] < at[j][1]

\* the tables a query joins, in join order
NamesOf(q) == <<q.t>> \o [k \in 1..Len(q.joins) |-> q.joins[k].table]

\* the value would match the filter in a SELECT on table t alone: LIKE as a
\* pattern, equality as FilterHolds
WouldMatch(d, t, c, cell, value) ==
    IF value.t = "dict" THEN MatchLikePattern(cell, value.s)
    ELSE FilterHolds(d[t].schema, [x \in {c} |-> cell], Where(c, value))

\* C19: in a SELECT with joins the WHERE filter has the semantics of a SELECT
\* without joins: filtering the joined rows on a column gives the joined rows
\* whose value for that column matches after the filter value is coerced to
\* the column type, with the letter case of Text ignored and LIKE evaluated as
\* a pattern.
C19_JoinedWhereAsSingleTable ==
    \A q \in JoinQueries, w \in JoinWheres \ {NoQWhere} :
        LET names == NamesOf(q)
            key == WhereKey(db, names, w.col)
            Holds(at) == WouldMatch(db, key[1], key[2],
                                    CombinedRow(db, names, at)[key], w.value)
            res == SelectWithJoins(db, q.t, <<>>, w, q.joins)
        IN  InSeq(key[1], names) =>
                res.ok /\ res.at = SelectSeq(JoinedRows(db, q.t, q.joins).at, Holds)

\* the column of the joined tables a name stands for: the column of the named
\* table, or of the first table in join order whose schema declares it;
\* [k, c], k the place of the table in join order, 0 when there is none
Resolved(d, names, col) ==
    LET Named(k) == names[k] = col[1] /\ col[2] \in DOMAIN d[names[k]].schema.coldef
        Declares(k) == col[2] \in DOMAIN d[names[k]].schema.coldef
        places == IF col[1] # NoName THEN {k \in 1..Len(names) : Named(k)}
                  ELSE {k \in 1..Len(names) : Declares(k)}
    IN  [k |-> IF places = {} THEN 0
               ELSE CHOOSE k \in places : \A j \in places : k <= j,
         c |-> col[2]]

\* the value stored for the resolved column in the rows joined from positions at
StoredCell(d, names, at, place) == d[names[place.k]].data[at[place.k]][place.c]

C21_JoinsEqualValues ==
    \A q \in TypedJoins.queries :
        LET join == q.joins[1]
            emitted == JoinedRows(db, q.t, q.joins).at
        IN  \A i \in 1..Len(db[q.t].data), j \in 1..Len(db[join.table].data) :
                LET left == db[join.left_table].data[i][join.left_column]
                    right == db[join.right_table].data[j][join.right_column]
                IN  InSeq(<<i, j>>, emitted)
                        <=> (left # Null /\ right # Null /\ left = right)

\* the key SELECT * gives column c of the table at place p of the join: the
\* unqualified name when one joined table declares c, table.column otherwise
StarKey(d, names, p, c) ==
    LET declaring == {r \in 1..Len(names) : c \in DOMAIN d[names[r]].schema.coldef}
    IN  IF Cardinality(declaring) = 1 THEN QName(NoName, c) ELSE QName(names[p], c)

\* C22: for SELECT * with joins each result row has one entry per column of
\* every joined table, under the unqualified name when exactly one joined
\* table declares the name and under table.column otherwise, and the entry
\* holds the value of the row that was joined: no value is lost to a key
\* collision.
C22_StarKeepsEveryColumn ==
    \A q \in JoinQueries \cup SelfJoins :
        LET names == NamesOf(q)
            res == SelectWithJoins(db, q.t, <<>>, NoQWhere, q.joins)
            places == {pc \in (1..Len(names)) \X {"id", "ref", "email"} :
                          pc[2] \in DOMAIN db[names[pc[1]]].schema.coldef}
        IN  \A k \in 1..Len(res.rows) :
                /\ DOMAIN res.rows[k]
                      = {StarKey(db, names, pc[1], pc[2]) : pc \in places}
                /\ \A pc \in places :
                       res.rows[k][StarKey(db, names, pc[1], pc[2])]
                          = db[names[pc[1]]].data[res.at[k][pc[1]]][pc[2]]

\* C23: a SELECT whose column list names a column that no table of the query
\* declares fails with an error, without joins and with joins, whether or not
\* the tables hold rows.
C23_UnknownColumnFails ==
    /\ \A t \in {"u", "c", "g"} : ~SelectOp(db, t, <<"zip">>, NoWhere).ok
    /\ \A q \in JoinQueries :
           /\ ~SelectWithJoins(db, q.t, <<QName(NoName, "zip")>>, NoQWhere, q.joins).ok
           /\ ~SelectWithJoins(db, q.t, <<QName(q.t, "zip")>>, NoQWhere, q.joins).ok

\* the column list is a valid schema: at least one column, every column named,
\* no name twice, supported types, at most one primary key, auto_increment
\* only on an INT primary key
WellFormed(columns) ==
    LET places == 1..Len(columns)
    IN  /\ columns # <<>>
        /\ \A k \in places : columns[k].name # NoName
        /\ Cardinality({columns[k].name : k \in places}) = Len(columns)
        /\ \A k \in places : columns[k].type \in {"INT", "TEXT", "BOOL", "FLOAT"}
        /\ Cardinality({k \in places : columns[k].primary_key}) <= 1
        /\ \A k \in places : columns[k].auto_increment =>
                                 columns[k].primary_key /\ columns[k].type = "INT"

\* C24: CREATE TABLE fails when a table of that name exists or the schema is
\* invalid, and a failed CREATE leaves every table as it was; a successful
\* CREATE adds a table with no rows, counter 0 and one empty index for each
\* index descriptor of its schema, and leaves the other tables as they were.
C24_CreateTable ==
    \A e \in SchemaWorld.catalog :
        LET res == CreateTableOp(db, e.t, e.columns)
            made == res.db[e.t]
        IN  /\ res.ok <=> (~TableExists(db, e.t) /\ WellFormed(e.columns))
            /\ ~res.ok => res.db = db
            /\ res.ok =>
                   /\ DOMAIN res.db = DOMAIN db \cup {e.t}
                   /\ \A t \in DOMAIN db : res.db[t] = db[t]
                   /\ made.data = <<>>
                   /\ made.schema.auto_increment_counter = 0
                   /\ DOMAIN made.indexes = Range(made.schema.indexes)
                   /\ \A c \in DOMAIN made.indexes : DOMAIN made.indexes[c] = {}

\* CREATE TABLE failed on a table that exists and holds a row
C24_CreateOnExisting ==
    /\ last.op = "create" /\ ~last.ok
    /\ "s" \in DOMAIN db
    /\ Len(db["s"].data) = 1

\* what holds of a stored schema by itself
SchemaShape(schema) ==
    /\ Len(schema.columns) >= 1
    /\ Cardinality(Range(schema.columns)) = Len(schema.columns)
    /\ DOMAIN schema.coldef = Range(schema.columns)
    /\ schema.primary_key # NoName =>
           /\ schema.primary_key \in DOMAIN schema.coldef
           /\ ~schema.coldef[schema.primary_key].nullable
           /\ schema.coldef[schema.primary_key].unique
    /\ schema.auto_increment # NoName =>
           /\ schema.auto_increment = schema.primary_key
           /\ schema.coldef[schema.auto_increment].type = "INT"
    /\ Cardinality(Range(schema.indexes)) = Len(schema.indexes)
    /\ Range(schema.indexes) = {c \in DOMAIN schema.coldef : schema.coldef[c].unique}

\* what holds of a stored schema and the column list it was created from
SchemaAsDeclared(schema, columns) ==
    LET places == 1..Len(columns)
    IN  /\ schema.columns = [k \in places |-> columns[k].name]
        /\ Cardinality({k \in places : columns[k].primary_key}) <= 1
        /\ \A k \in places :
               /\ columns[k].primary_key <=> schema.primary_key = columns[k].name
               /\ columns[k].auto_increment <=> schema.auto_increment = columns[k].name
               /\ schema.coldef[columns[k].name].unique
                     <=> (columns[k].primary_key \/ columns[k].unique)
               /\ schema.coldef[columns[k].name].nullable
                     <=> (columns[k].nullable /\ ~columns[k].primary_key)

\* C25: every schema CREATE TABLE stores has at least one column, distinct
\* column names, at most one primary-key column, a primary key that is not
\* nullable and is unique whatever the caller passed for nullable, an
\* auto_increment column that is the primary key and of type INT, and an index
\* descriptor for exactly the primary-key and unique columns.
C25_StoredSchemas ==
    /\ \A t \in DOMAIN db : SchemaShape(db[t].schema)
    /\ \A e \in SchemaWorld.catalog :
           LET res == CreateTableOp(db, e.t, e.columns)
           IN  res.ok => /\ SchemaShape(res.db[e.t].schema)
                         /\ SchemaAsDeclared(res.db[e.t].schema, e.columns)

\* CREATE TABLE has stored a schema of two columns with an auto_increment
\* primary key and a unique column
C25_KeyAndUniqueStored ==
    /\ last.op = "create" /\ last.ok
    /\ LET schema == db[last.t].schema
       IN  /\ Len(schema.columns) = 2
           /\ schema.auto_increment # NoName
           /\ Len(schema.indexes) = 2

\* the counter of table t in storage d
CounterOf(d, t) == d[t].schema.auto_increment_counter

\* the value lists of the counter world for which INSERT generates the id
GeneratingInserts == {values \in CounterInserts : Len(values) = 1 \/ values[1] = Null}

Supplied(schema, values, c) ==
    LET k == ColIndex(schema.columns, c)
        auto == ColIndex(schema.columns, schema.auto_increment)
    IN  values[IF k < auto THEN k ELSE k - 1]

\* what INSERT stores for a supplied value v in a column: [ok, v]
StoredFor(coldef, v) ==
    IF IsNullLiteral(v) THEN [ok |-> coldef.nullable, v |-> Null]
    ELSE ValidateValueType(v, coldef.type)

\* the row expected of an INSERT that leaves out the auto-increment column
GeneratedRow(schema, values) ==
    [c \in DOMAIN schema.coldef |->
        IF c = schema.auto_increment THEN IntV(schema.auto_increment_counter + 1)
        ELSE StoredFor(schema.coldef[c], Supplied(schema, values, c)).v]

MatchedRows(d, t, w) ==
    {p \in 1..Len(d[t].data) : w = NoWhere \/ d[t].data[p][w.col] = w.value}

\* C28: DELETE returns the number of rows of the named table that matched
\* the WHERE predicate, whatever the cascade removed besides, and UPDATE
\* returns the number of rows that matched; when no row matches, each
\* returns 0 and leaves every table as it was.
C28_ReturnedCounts ==
    \A t \in AutoWorld.tables, w \in AutoWorld.changes :
        LET matched == Cardinality(MatchedRows(db, t, w))
            deleted == DeleteOp(db, t, w)
        IN  /\ deleted.ok => deleted.n = matched
            /\ matched = 0 => deleted.ok /\ deleted.n = 0 /\ deleted.db = db
            /\ \A a \in AutoWorld.assignments :
                   LET updated == UpdateOp(db, t, a, w)
                   IN  /\ updated.ok => updated.n = matched
                       /\ matched = 0 => updated.ok /\ updated.n = 0 /\ updated.db = db

\* a DELETE of one row of p has returned 1 after the cascade removed two
\* rows of c
C28_OneDeletedTwoCascaded ==
    /\ last.op = "delete" /\ last.t = "p" /\ last.ok /\ last.n = 1
    /\ Len(db["p"].data) = 0
    /\ Len(db["c"].data) = 0
    /\ CounterOf(db, "c") = 2

\* no row of storage d holds Null in a column that is not nullable
NoNullInNotNull(d) ==
    \A t \in DOMAIN d :
        \A p \in 1..Len(d[t].data), c \in DOMAIN d[t].schema.coldef :
            ~d[t].schema.coldef[c].nullable => d[t].data[p][c] # Null

\* value list values gives Null, or the string NULL, to a column of the
\* schema that is not nullable and is not the auto-increment column
NullForNotNull(schema, values) ==
    LET n == Len(schema.columns)
        Given(c) == IF Len(values) = n THEN values[ColIndex(schema.columns, c)]
                    ELSE Supplied(schema, values, c)
    IN  /\ \/ Len(values) = n
           \/ schema.auto_increment # NoName /\ Len(values) = n - 1
        /\ \E c \in DOMAIN schema.coldef \ {schema.auto_increment} :
               ~schema.coldef[c].nullable /\ IsNullLiteral(Given(c))

\* C29: an INSERT that gives Null or the string NULL to a column that is not
\* nullable fails and changes nothing, and so does an UPDATE that matches a
\* row and assigns one of them to such a column; no row holds Null in a
\* column that is not nullable.
C29_NotNull ==
    /\ NoNullInNotNull(db)
    /\ "s" \in DOMAIN db =>
          LET schema == db["s"].schema
          IN  /\ \A values \in SchemaInserts :
                     NullForNotNull(schema, values) =>
                         LET res == InsertOp(db, "s", values)
                         IN  ~res.ok /\ res.db = db
              /\ \A a \in SchemaWorld.assignments :
                     (/\ db["s"].data # <<>>
                      /\ \E c \in DOMAIN a \cap DOMAIN schema.coldef :
                             ~schema.coldef[c].nullable /\ IsNullLiteral(a[c])) =>
                         LET res == UpdateOp(db, "s", a, NoWhere)
                         IN  ~res.ok /\ res.db = db

\* an UPDATE has failed on a table that holds a row and has a column that is
\* neither nullable nor a key, next to a nullable column holding Null
C29_NotNullColumnWithRow ==
    /\ last.op = "update" /\ last.t = "s" /\ ~last.ok
    /\ "s" \in DOMAIN db
    /\ db["s"].schema.columns = <<"a", "b">>
    /\ ~db["s"].schema.coldef["a"].nullable
    /\ db["s"].schema.primary_key = NoName
    /\ db["s"].schema.coldef["b"].nullable
    /\ Len(db["s"].data) = 1
    /\ db["s"].data[1]["b"] = Null

\* a value the INT coercion is to accept: an integer, or a string of digits
IntegerValued(v) == v.t = "int" \/ (v.t = "text" /\ IsIntStr(v.s))

\* C30: the INT coercion accepts integers and integer-parseable strings and
\* rejects every other string, every float with a fractional part and every
\* boolean, so that INSERT and UPDATE store in an INT column the integer
\* given and nothing else; the FLOAT coercion accepts an integer.
C30_IntCoercion ==
    /\ \A v \in TypedInts \ {Null} :
           /\ ValidateValueType(v, "INT").ok <=> IntegerValued(v)
           /\ \A x \in TypedFloats :
                  LET res == InsertOp(db, "m", <<v, x>>)
                  IN  ~IntegerValued(v) => ~res.ok /\ res.db = db
    /\ \A a \in TypedWorld.assignments :
           LET res == UpdateOp(db, "m", a, NoWhere)
           IN  ("n" \in DOMAIN a /\ ~IntegerValued(a["n"]) /\ db["m"].data # <<>>) =>
                   ~res.ok /\ res.db = db
    /\ ValidateValueType(IntV(1), "FLOAT") = [ok |-> TRUE, v |-> FloatV(10)]

RECURSIVE RefLike(_, _)
\* the reference matcher: "%" stands for any run of characters, "_" for any
\* one character, any other character for itself in either letter case, and
\* the pattern has to use up the whole text
RefLike(text, pattern) ==
    IF pattern = <<>> THEN text = <<>>
    ELSE IF Head(pattern) = "%"
         THEN \E k \in 0..Len(text) : RefLike(SubSeq(text, k + 1, Len(text)), Tail(pattern))
    ELSE /\ text # <<>>
         /\ Head(pattern) = "_" \/ LowerChar(Head(text)) = LowerChar(Head(pattern))
         /\ RefLike(Tail(text), Tail(pattern))

\* C31: SELECT with a LIKE predicate returns exactly the rows whose cell is a
\* text that the reference matcher accepts for the pattern (% any run, _ any
\* one character, other characters themselves ignoring case, the whole value
\* matched); a cell that is no text is never returned.
C31_LikeIsReference ==
    \A w \in LikeWorld.wheres :
        LET res == SelectOp(db, "u", <<>>, w)
            Accepted(row) == row[w.col].t = "text" /\ RefLike(row[w.col].s, w.value.s)
        IN  res.ok /\ res.rows = SelectSeq(db["u"].data, Accepted)

\* the request the grammar gives a SELECT without JOIN: the request parsed is
\* that of the projection, the table and the predicate the text was written
\* from, and the engine answers it as it answers these
ParsesAsWritten(s) ==
    LET req == ParseSelect(Normalized(SelectText(s.projection, s.table, s.predicate)))
    IN  /\ req.ok
        /\ RunSelect(db, req) =
               SelectOp(db, NameOf(s.table),
                        [k \in 1..Len(s.projection) |-> NameOf(s.projection[k])],
                        IF s.predicate = NoPredicate THEN NoWhere
                        ELSE Where(NameOf(s.predicate.col), s.predicate.value))
        /\ ~req.joined
        /\ req.table_name = s.table
        /\ req.star = (s.projection = <<>>)
        /\ req.columns = s.projection
        /\ req.where_clause.given = (s.predicate # NoPredicate)
        /\ s.predicate # NoPredicate =>
              /\ req.where_clause.col = s.predicate.col
              /\ req.where_clause.value = s.predicate.value

\* C32: every SELECT without a JOIN clause that conforms to the grammar parses
\* to a SELECT request with joins absent and with the table, the projection
\* and the WHERE predicate written in it, whatever letters the table name, the
\* column names and the string literal contain.
C32_JoinlessSelectParses == \A s \in TextSelects : ParsesAsWritten(s)

\* an unsigned run of digits
IsDigits(x) == x # <<>> /\ \A k \in 1..Len(x) : IsDigit(x[k])

\* a token in quotes of one kind
IsQuoted(x) == Len(x) >= 2 /\ x[1] \in Quotes /\ x[Len(x)] = x[1]

\* the value the literal rules give a token in value position
StatedValue(token) ==
    LET point == FirstChar(token, ".")
    IN  IF Upper(token) = <<"N", "U", "L", "L">> THEN Null
        ELSE IF Upper(token) = <<"T", "R", "U", "E">> THEN BoolV(TRUE)
        ELSE IF Upper(token) = <<"F", "A", "L", "S", "E">> THEN BoolV(FALSE)
        ELSE IF IsQuoted(token) THEN TextV(SubSeq(token, 2, Len(token) - 1))
        ELSE IF IsDigits(Unsigned(token)) THEN IntV(StrToInt(token))
        ELSE IF /\ point > 1
                /\ IsDigits(Unsigned(SubSeq(token, 1, point - 1)))
                /\ IsDigits(From(token, point + 1))
             THEN FloatV(StrToTenths(token))
        ELSE TextV(token)

\* C33: a literal in value position is parsed to Null for NULL in any letter
\* case, a boolean for TRUE and FALSE in any letter case, an integer for an
\* integer token, a float for a decimal token, the enclosed text for a quoted
\* string and the token itself as text for any other unquoted token.
C33_LiteralValues ==
    \A token \in LiteralTokens :
        LET req == ParseInsert(Normalized(InsertText(<<"N", "U", "L", "L">>, token)))
        IN  /\ ParseSingleValue(token) = StatedValue(token)
            /\ req.ok
            /\ req.values = <<Null, StatedValue(token)>>
            /\ InsertOp(db, NameOf(req.table_name), req.values) =
                   InsertOp(db, "u", <<Null, StatedValue(token)>>)

\* table t as the cascades of DELETE FROM t WHERE where leave it, before the
\* DELETE saves its remaining rows
AfterCascades(d, t, where) ==
    LET found == WherePositions(d, t, where)
    IN  HandleForeignKeyConstraints(
            d, t, PkValues(d[t].schema, RowsAt(d[t].data, found.positions))).db[t].data

\* the successful DELETE FROM t WHERE where leaves no row of t that its
\* cascades removed from t
CascadedStayRemoved(d, t, where) ==
    LET res == DeleteOp(d, t, where)
    IN  res.ok /\ res.n > 0 =>
            \A p \in 1..Len(d[t].data) :
                ~InSeq(d[t].data[p], AfterCascades(d, t, where))
                    => ~InSeq(d[t].data[p], res.db[t].data)

\* C34: when the cascade of a DELETE on a table comes back into that table
\* through a cycle of foreign keys, every row of the table that the cascade
\* removed is absent when the DELETE returns.
C34_CascadeIntoSameTable ==
    \A t \in FkWorld.tables : \A where \in FkWorld.changes : CascadedStayRemoved(db, t, where)

\* DELETE FROM t WHERE where succeeds and changes no other table
DeleteTouchesOnly(d, t, where) ==
    LET res == DeleteOp(d, t, where)
    IN  /\ res.ok
        /\ \A other \in (DOMAIN d) \ {t} : res.db[other] = d[other]

\* C35: a DELETE on a table without primary key, a foreign key that refers to
\* a column that is no primary key, and a foreign key of a table on itself
\* never make a DELETE fail and never remove a row of another table.
C35_PassedOverForeignKeys ==
    \A t \in FkWorld.tables : \A where \in FkWorld.changes : DeleteTouchesOnly(db, t, where)

\* a DELETE has removed a row of p, and c and g still hold a row whose foreign
\* key holds a value of the referenced column that no row of p holds any more
C35_ReferringRowsKept ==
    LET Orphan(t) == \E k \in 1..Len(db[t].data) :
                        /\ db[t].data[k]["ref"] # Null
                        /\ db[t].schema.foreign_keys # <<>>
                        /\ db[t].schema.foreign_keys[1].references_table = "p"
                        /\ \A j \in 1..Len(db["p"].data) :
                              db["p"].data[j][db[t].schema.foreign_keys[1].references_column]
                                  # db[t].data[k]["ref"]
    IN  /\ last.op = "delete" /\ last.t = "p" /\ last.ok /\ last.n > 0
        /\ Orphan("c")
        /\ Orphan("g")

\* between d and e no table other than t was changed
OthersUnchanged(d, e, t) ==
    /\ DOMAIN e = DOMAIN d
    /\ \A other \in (DOMAIN d) \ {t} : e[other] = d[other]

\* row of table ch holds, in a CASCADE foreign key, the primary-key value of a
\* row that its referenced table held in d
HeldByCascade(d, ch, row) ==
    \E k \in 1..Len(d[ch].schema.foreign_keys) :
        LET fk == d[ch].schema.foreign_keys[k]
        IN  /\ fk.on_delete = "CASCADE"
            /\ fk.references_table \in DOMAIN d
            /\ row[fk.column] # Null
            /\ InValues(row[fk.column],
                        PkValues(d[fk.references_table].schema, d[fk.references_table].data))

\* between d and e a table other than t was changed only by the removal of
\* rows that a CASCADE foreign key held: its schema and counter are the same,
\* its rows are those of d that stayed, in their order, and a table that lost
\* no row is the same in all
OthersOnlyCascaded(d, e, t) ==
    /\ DOMAIN e = DOMAIN d
    /\ \A other \in (DOMAIN d) \ {t} :
          LET Stays(row) == InSeq(row, e[other].data)
          IN  /\ e[other].schema = d[other].schema
              /\ e[other].data = Keep(d[other].data, Stays)
              /\ \A p \in 1..Len(d[other].data) :
                    ~Stays(d[other].data[p]) => HeldByCascade(d, other, d[other].data[p])
              /\ e[other].data = d[other].data => e[other] = d[other]

\* C36: SELECT, with or without joins, changes no table; INSERT and UPDATE on a
\* table, successful or failed, leave the schema, rows, indexes and counter of
\* every other table unchanged; DELETE on a table changes another table only
\* by removing rows through a CASCADE foreign key.
C36_Frame ==
    [][/\ last'.op = "select" => db' = db
       /\ last'.op \in {"insert", "update"} => OthersUnchanged(db, db', last'.t)
       /\ last'.op = "delete" => OthersOnlyCascaded(db, db', last'.t)]_vars

\* a failed DELETE on p has removed a row of c through its CASCADE foreign key,
\* while g holds the row whose RESTRICT foreign key made the DELETE fail
C36_FailedDeleteCascaded ==
    /\ last.op = "delete" /\ last.t = "p" /\ ~last.ok
    /\ db["c"].data = <<>>
    /\ db["c"].schema.foreign_keys[1].on_delete = "CASCADE"
    /\ db["g"].data # <<>>
    /\ db["p"].data # <<>>

====
